---- MODULE Spec2Model ----
(***************************************************************************)
(* A model of the export orchestrator of WechatExporter                    *)
(* (src/WechatExporter/core/Exporter.cpp) and of the range query of its    *)
(* backup index (ITunesDb::filter, ITunesParser.h).                        *)
(*                                                                         *)
(* Ten specifications share the module's variables:                        *)
(*   SpecLog   the fragment-log functions serializeMessages,               *)
(*             unserializeMessages and mergeMessages on byte strings;      *)
(*   SpecPage  the pagination of exportSession as a function of the merged *)
(*             fragment sequence;                                          *)
(*   Spec      the orchestrator: control surface, worker thread and the    *)
(*             files of the output directory, over several passes;         *)
(*   SpecScenario  the worker on one conversation of 1500 records.         *)
(*   SpecState the orchestrator in incremental passes over a state folder  *)
(*             that loses or has damaged one file between two passes;      *)
(*   SpecFilter    ITunesDb::filter on sorted catalogs and prefix filters. *)
(*   SpecWrite serializeMessages one file operation at a time;             *)
(*   SpecCatalog   passes during which loadUsersAndSessions is called;     *)
(*   SpecName  buildFileNameForUser called again and again on one set;     *)
(*   SpecLive  one pass of one instance under a fair scheduler.            *)
(***************************************************************************)
EXTENDS Integers, Sequences, FiniteSets, TLC

VARIABLES
    \* ---- build and host ----
    env,            \* [checked, lowMem]: bounds-checked operator[]; host refuses huge allocations
    shareDomain,    \* the backup holds the domain AppDomainGroup-group.com.tencent.xin
    \* ---- SpecFilter ----
    m_files,        \* the catalog of an ITunesDb: logical paths in sorted order
    ftPrefix,       \* the prefix of the filter handed to ITunesDb::filter
    ftOp,           \* "none" or "filter"
    ftOut,          \* the positions in m_files of the files filter returned
    \* ---- SpecName ----
    nmNames,        \* display name, user name and hash of the Friend of the last call
    nmExisting,     \* existingFileNames
    nmAssigned,     \* the output file names set so far, in the order of the calls
    nmOut,          \* what the last call of buildFileNameForUser returned
    \* ---- SpecLog, SpecWrite ----
    lgOld,          \* the fragments handed to serializeMessages
    lgFile,         \* the fragment-log file
    lgDamaged,      \* the file was changed after serializeMessages wrote it
    lgPokes,        \* number of bytes overwritten from outside
    lgNew,          \* the fragments handed to mergeMessages
    lgOpts,         \* m_options during mergeMessages
    lgOp,           \* the last function applied
    lgOut,          \* its result
    lgStep,         \* file operations the running serializeMessages has completed
    \* ---- build, backup ----
    pageSize,       \* pageSize of exportSession (1000, or 500 without NDEBUG)
    backup,         \* the accounts of the backup, each with its conversations
    \* ---- files of the output directory ----
    stateDir,       \* the folder .wxexp exists
    ctxFile,        \* .wxexp/wxexp.dat, the persisted export context
    logFile,        \* .wxexp/<account>/<conversation>.dat, per conversation
    sessionDoc,     \* <account>/<conversation>.html, per conversation
    chunkFile,      \* <conversation>_files/Data/msg-<page>.js, per conversation
    userIndex,      \* <account>/index.html, per account
    topIndex,       \* index.html
    \* ---- members of the Exporter instance ----
    m_running, m_cancelled, m_options, m_usersAndSessionsFilter,
    m_exportContext,
    m_iTunesDb,     \* the catalog m_iTunesDb points to: [live, gen], gen counting the catalogs built
    thread,         \* m_thread: "none", "running" or "finished" (joinable unless "none")
    \* ---- the worker thread (runImpl, exportUser, exportSession) ----
    pc, ui, si, orgOptions, htmlBody, userBody,
    taskQueue,      \* outstanding tasks of the account's TaskManager
    enumMin,        \* the threshold the enumerator was built with
    enumLast,       \* the identifier the enumerator yielded last
    maxMsgId, numberOfMsgs, messages,
    dlCount,        \* the tasks queued when exportUser began to wait
    prevDlCount,    \* the length of the queue exportUser reported last
    \* ---- what the callers and the notifier saw ----
    lastRun,        \* what the last call of run() returned and found
    lastWait,       \* how the last call of waitForComplition() since run() was accepted ended
    liveWorkers,    \* runImpl threads started and not yet returned
    report,         \* the last pass-level notification
    notified,       \* the last notification of any level the notifier received
    \* ---- history ----
    passNo,         \* passes started on the output directory
    passStat,       \* counters of the current pass
    cut,            \* the conversation whose enumeration a cancel() cut short
    prev            \* the output directory and configuration at the end of the previous pass

filterVars == <<m_files, ftPrefix, ftOp, ftOut>>
nameVars == <<nmNames, nmExisting, nmAssigned, nmOut>>
logVars == <<lgOld, lgFile, lgDamaged, lgPokes, lgNew, lgOpts, lgOp, lgOut, lgStep>>
diskVars == <<stateDir, ctxFile, logFile, sessionDoc, chunkFile, userIndex, topIndex>>
instVars == <<m_running, m_cancelled, m_options, m_usersAndSessionsFilter,
              m_exportContext, m_iTunesDb, thread>>
workVars == <<pc, ui, si, orgOptions, htmlBody, userBody, taskQueue, enumMin,
              enumLast, maxMsgId, numberOfMsgs, messages, dlCount, prevDlCount>>
seenVars == <<lastRun, lastWait, liveWorkers, report, notified>>
histVars == <<passNo, passStat, cut, prev>>
mainVars == <<pageSize, backup, diskVars, instVars, workVars, seenVars, histVars>>

vars == <<env, shareDomain, nameVars, filterVars, logVars, mainVars>>

-----------------------------------------------------------------------------
(* Bounds of the model *)

MaxPages == 3       \* pages of fragments in a sequence drawn for SpecPage
MaxFrags == 2       \* fragments in a sequence drawn for SpecLog
MaxFragLen == 1     \* bytes in a fragment drawn for SpecLog
MaxPokes == 1       \* bytes overwritten from outside in SpecLog
MaxPasses == 2      \* passes run against the output directory in Spec
MaxRecords == 3     \* records of the largest conversation of the backup in Spec
MaxLoads == 1       \* calls of loadUsersAndSessions
MaxNames == 3       \* names one set of used output names comes to hold in SpecName

-----------------------------------------------------------------------------
(* Values *)

\* a file of the output directory: absent, or present with its bytes
NoFile == [exists |-> FALSE, data |-> <<>>]
File(d) == [exists |-> TRUE, data |-> d]

\* no function applied yet
NoResult == [messages |-> <<>>, outcome |-> "none", oob |-> FALSE]

\* the byte values drawn for fragments and for outside damage
ByteSample == {0, 1, 255}

\* all sequences over S of length at most n
SeqsUpTo(S, n) == UNION {[1..k -> S] : k \in 0..n}

Envs == [checked : BOOLEAN, lowMem : BOOLEAN]

-----------------------------------------------------------------------------
(* Fragment log: Exporter::serializeMessages / unserializeMessages /       *)
(* mergeMessages.  A uint32 read from the file is kept as two 16-bit limbs *)
(* [hi, lo] because its value can exceed 2^31 - 1; the sizes the           *)
(* program computes from lengths of files it holds stay far below that.    *)

\* htonl(static_cast<uint32_t>(n)) as the four bytes appended to the file
BE32(n) ==
    <<(n \div 16777216) % 256, (n \div 65536) % 256, (n \div 256) % 256, n % 256>>

\* memcpy(&w, &data[offset], 4); ntohl(w)  (offset counts from 0)
ReadWord(data, offset) ==
    [hi |-> data[offset + 1] * 256 + data[offset + 2],
     lo |-> data[offset + 3] * 256 + data[offset + 4]]

\* w > n for a uint32 w and a size n
WordGT(w, n) == w.hi > n \div 65536 \/ (w.hi = n \div 65536 /\ w.lo > n % 65536)

\* the value of w, used where w <= a file length is known
WordVal(w) == w.hi * 65536 + w.lo

\* the entries lo..hi of the loop of serializeMessages, concatenated
RECURSIVE WriteEntries(_, _, _)
WriteEntries(msgs, lo, hi) ==
    IF lo > hi THEN <<>>
    ELSE IF lo = hi THEN BE32(Len(msgs[lo])) \o msgs[lo]
    ELSE LET mid == (lo + hi) \div 2
         IN  WriteEntries(msgs, lo, mid) \o WriteEntries(msgs, mid + 1, hi)

\* the content of the file once serializeMessages has returned
SerializeMessages(msgs) ==
    BE32(Len(msgs)) \o WriteEntries(msgs, 1, Len(msgs))

\* one iteration of the loop of unserializeMessages on the loop state st
ReadEntry(e, data, st) ==
    IF st.offset + 4 > Len(data) THEN [st EXCEPT !.stop = TRUE]
    ELSE LET sizeOfString == ReadWord(data, st.offset)
             offset == st.offset + 4
         IN  IF WordGT(sizeOfString, Len(data) - offset)
                 THEN [st EXCEPT !.stop = TRUE, !.offset = offset]
             \* &data[offset] with offset = data.size(): operator[] outside its
             \* precondition; a checked build aborts, an unchecked one goes on
             ELSE IF offset >= Len(data) /\ e.checked
                 THEN [st EXCEPT !.stop = TRUE, !.outcome = "abort"]
             \* emplace_back(&data[offset], sizeOfString) reads the bytes
             \* offset .. offset + sizeOfString - 1
             ELSE [st EXCEPT
                     !.messages = Append(@, SubSeq(data, offset + 1,
                                                   offset + WordVal(sizeOfString))),
                     !.oob = @ \/ offset + WordVal(sizeOfString) > Len(data),
                     !.offset = offset + WordVal(sizeOfString)]

\* n iterations of the loop, left at the first break
RECURSIVE ReadEntries(_, _, _, _)
ReadEntries(e, data, st, n) ==
    IF n = 0 \/ st.stop THEN st
    ELSE IF n = 1 THEN ReadEntry(e, data, st)
    ELSE LET half == n \div 2
             first == ReadEntries(e, data, st, half)
         IN  IF first.stop THEN first ELSE ReadEntries(e, data, first, n - half)

\* unserializeMessages(fileName, messages): [messages, outcome, oob].  Every
\* iteration that does not break moves offset by at least 4, so the loop
\* breaks within Len(data) \div 4 + 1 iterations however large itemSize is.
UnserializeMessages(e, file, msgs) ==
    \* readFile fails: messages.clear()
    IF ~file.exists THEN [messages |-> <<>>, outcome |-> "ok", oob |-> FALSE]
    \* dataSize < sizeof(uint32_t): returns with messages as handed in
    ELSE IF Len(file.data) < 4
        THEN [messages |-> msgs, outcome |-> "ok", oob |-> FALSE]
    ELSE LET data == file.data
             itemSize == ReadWord(data, 0)
             st0 == [messages |-> <<>>, offset |-> 4, stop |-> FALSE,
                     outcome |-> "ok", oob |-> FALSE]
             n == IF WordGT(itemSize, Len(data) \div 4) THEN Len(data) \div 4 + 1
                  ELSE WordVal(itemSize)
         IN  \* msgs.reserve(itemSize): 2^27 strings or more is a request of
             \* several GiB, which a host short of memory refuses (std::bad_alloc)
             IF e.lowMem /\ itemSize.hi >= 2048
                 THEN [messages |-> <<>>, outcome |-> "bad_alloc", oob |-> FALSE]
             ELSE LET st == ReadEntries(e, data, st0, n)
                  IN  [messages |-> st.messages, outcome |-> st.outcome, oob |-> st.oob]

\* mergeMessages(fileName, messages): [messages, outcome]
MergeMessages(e, file, msgs, options) ==
    LET org == UnserializeMessages(e, file, <<>>)
        swapped == "DESC" \notin options
        m1 == IF swapped THEN org.messages ELSE msgs
        o1 == IF swapped THEN msgs ELSE org.messages
    IN  [messages |-> IF org.outcome = "ok" THEN m1 \o o1 ELSE <<>>,
         outcome |-> org.outcome, oob |-> org.oob]

-----------------------------------------------------------------------------
(* The backup: accounts in the order LoginInfo2Parser finds them, each     *)
(* with its conversations in the order loadUserFriendsAndSessions sorts    *)
(* them.  A conversation has a name (getUsrName), the identifiers of its   *)
(* records, the flags isDbFileEmpty and isSubscription, and the records    *)
(* whose rendering hands a task (a download) to the TaskManager.           *)

Session(name, n, isEmpty, isSub, media) ==
    [name |-> name, recs |-> 1..n, dbEmpty |-> isEmpty, sub |-> isSub,
     media |-> media]

\* two accounts that both hold a conversation with the contact "a"
MainBackup ==
    << [name |-> "u1",
        sessions |-> << Session("a", MaxRecords, FALSE, FALSE, {2, 3}),
                        Session("b", 1, FALSE, FALSE, {}) >>],
       [name |-> "u2",
        sessions |-> << Session("a", 1, FALSE, FALSE, {}),
                        Session("s", 1, FALSE, TRUE, {}),
                        Session("e", 0, TRUE, FALSE, {}) >>] >>

\* the conversations of a backup as <<account, conversation>>
UserNames(b) == {b[i].name : i \in DOMAIN b}
ConvKeys(b) ==
    UNION {{<<b[i].name, b[i].sessions[j].name>> : j \in DOMAIN b[i].sessions} :
               i \in DOMAIN b}

-----------------------------------------------------------------------------
(* ExportContext (ExportContext.h is not among the sources: modelled from  *)
(* the data model of the specification): the options and the mapping from  *)
(* conversation to maxProcessedRecordId.                                   *)

EmptyMarks == [c \in {} |-> 0]
NewContext == [alive |-> TRUE, options |-> {}, marks |-> EmptyMarks, time |-> 0]
NullContext == [alive |-> FALSE, options |-> {}, marks |-> EmptyMarks, time |-> 0]

\* ExportContext::getMaxId(usrName, maxId): maxId is left alone when there is no entry
GetMaxId(ctx, usrName, maxId) ==
    IF usrName \in DOMAIN ctx.marks THEN ctx.marks[usrName] ELSE maxId

\* ExportContext::setMaxId(usrName, maxId)
SetMaxId(ctx, usrName, maxId) ==
    [ctx EXCEPT !.marks = [c \in DOMAIN @ \cup {usrName} |->
                               IF c = usrName THEN maxId ELSE @[c]]]

\* ExportContext::getNumberOfSessions()
GetNumberOfSessions(ctx) == Cardinality(DOMAIN ctx.marks)

\* ExportContext::refreshExportTime(): the time of the pass that persists
RefreshExportTime(ctx, now) == [ctx EXCEPT !.time = now]

\* the context file: absent or empty, or the serialized options, mapping and
\* export time; bad: the contents are not what serialize() writes
NoCtxFile == [exists |-> FALSE, bad |-> FALSE, options |-> {}, marks |-> EmptyMarks,
              time |-> 0]
\* writeFile(fileName, m_exportContext->serialize())
SerializeContext(ctx) ==
    [exists |-> TRUE, bad |-> FALSE, options |-> ctx.options, marks |-> ctx.marks,
     time |-> ctx.time]

\* ExportContext::unserialize(contents): [ok, ctx]; a context is left as it
\* was by contents that do not parse
UnserializeContext(file, ctx) ==
    IF file.bad THEN [ok |-> FALSE, ctx |-> ctx]
    ELSE [ok |-> TRUE,
          ctx |-> [ctx EXCEPT !.options = file.options, !.marks = file.marks,
                              !.time = file.time]]

\* loadExportContext accepting a context without entries
LoadExportContextAnyEntries(file, ctx) ==
    IF ~file.exists THEN [ok |-> FALSE, ctx |-> ctx]
    ELSE UnserializeContext(file, ctx)

\* Exporter::loadExportContext: [ok, ctx]
LoadExportContext(file, ctx) ==
    IF ~file.exists THEN [ok |-> FALSE, ctx |-> ctx]
    ELSE LET u == UnserializeContext(file, ctx)
         IN  [ok |-> u.ok /\ GetNumberOfSessions(u.ctx) > 0, ctx |-> u.ctx]

\* Exporter::hasPreviousExporting(outputDir, options, exportTime)
HasPreviousExporting(file) ==
    LET load == LoadExportContext(file, NewContext)
    IN  IF ~file.exists \/ ~load.ok
        THEN [ok |-> FALSE, options |-> {}, time |-> 0]
        ELSE [ok |-> TRUE, options |-> load.ctx.options, time |-> load.ctx.time]

-----------------------------------------------------------------------------
(* SessionParser::MessageEnumerator (not among the sources: modelled from  *)
(* section 4.3 of the specification): the records above the threshold in   *)
(* ascending order of identifier.                                          *)

\* the identifiers not yet yielded
Pending(recs, last) == {r \in recs : r > last}
\* nextMessage(msg): the identifier yielded next
NextMessage(recs, last) ==
    CHOOSE r \in Pending(recs, last) : \A q \in Pending(recs, last) : r <= q

\* msgParser.parse and exportMessage: the fragment rendered for a record,
\* opaque to the orchestrator and never empty with the templates in place
Render(r) == <<r \div 256, r % 256>>
IdOf(fragment) == fragment[1] * 256 + fragment[2]

-----------------------------------------------------------------------------
(* Pagination in exportSession *)

\* Paginate with nothing inline when there is more than one page
PaginateNoInline(msgs, options, size) ==
    LET n == Len(msgs)
        single == options \cap {"TEXT", "SYNC"} # {} \/ n <= size
        numberOfPages == IF single THEN 0 ELSE (n + size - 1) \div size
    IN  [body |-> IF single THEN msgs ELSE <<>>,
         numberOfMsgs |-> IF single THEN 0 ELSE n,
         numberOfPages |-> numberOfPages,
         chunks |-> [page \in 1..numberOfPages |->
                        SubSeq(msgs, (page - 1) * size + 1,
                               IF page = numberOfPages THEN n ELSE page * size)]]

\* Paginate with the number of pages rounded down
PaginateFloor(msgs, options, size) ==
    LET n == Len(msgs)
        inlineEnd == IF options \cap {"TEXT", "SYNC"} # {} \/ n <= size THEN n ELSE size
        numberOfMessages == n - inlineEnd
        numberOfPages == numberOfMessages \div size
    IN  [body |-> SubSeq(msgs, 1, inlineEnd),
         numberOfMsgs |-> numberOfMessages,
         numberOfPages |-> numberOfPages,
         chunks |-> IF "SYNC" \notin options /\ numberOfPages > 0
                    THEN [page \in 1..numberOfPages |->
                            SubSeq(msgs, inlineEnd + (page - 1) * size + 1,
                                   IF page = numberOfPages THEN n
                                   ELSE inlineEnd + page * size)]
                    ELSE <<>>]

\* the shell document and the data chunks written for the merged fragments
Paginate(msgs, options, size) ==
    LET n == Len(msgs)
        inlineEnd == IF options \cap {"TEXT", "SYNC"} # {} \/ n <= size THEN n ELSE size
        numberOfMessages == n - inlineEnd
        numberOfPages == (numberOfMessages + size - 1) \div size
    IN  [body |-> SubSeq(msgs, 1, inlineEnd),
         numberOfMsgs |-> numberOfMessages,
         numberOfPages |-> numberOfPages,
         chunks |-> IF "SYNC" \notin options /\ numberOfPages > 0
                    THEN [page \in 1..numberOfPages |->
                            SubSeq(msgs, inlineEnd + (page - 1) * size + 1,
                                   IF page = numberOfPages THEN n
                                   ELSE inlineEnd + page * size)]
                    ELSE <<>>]

NoDoc == [exists |-> FALSE, body |-> <<>>, numberOfMsgs |-> 0, numberOfPages |-> 0]
NoIndex == [exists |-> FALSE, items |-> <<>>]

-----------------------------------------------------------------------------
(* The orchestrator *)

NoFilter == [u \in {} |-> {}]
\* the filters filterUsersAndSessions is called with: none, or only the
\* first conversation of the first account
FilterChoices(b) == {NoFilter, [u \in {b[1].name} |-> {b[1].sessions[1].name}]}

NoRun == [result |-> "none", busy |-> FALSE]
NoReport == [event |-> "none", cancelled |-> FALSE]
\* the notifier has received nothing
NoNote == [event |-> "none", key |-> <<"", "">>, count |-> 0, seq |-> 0,
           closed |-> {}]

\* what the notifier has seen last once it receives event: seq numbers the
\* notifications of a pass, closed holds the accounts whose tasks-complete
\* it has received in this pass
Notify(n, event, key, count) ==
    [event |-> event, key |-> key, count |-> count,
     seq |-> IF event = "start" THEN 1 ELSE n.seq + 1,
     closed |-> IF event = "start" THEN {}
                ELSE IF event = "tasksComplete" THEN n.closed \cup {key[1]}
                ELSE n.closed]

\* what a pass has done so far: the records enumerated, the documents and
\* pages written, whether the previous context was taken over, why the pass
\* failed, the options it ran with, the conversations exportSession opened
\* the store of, and the conversations whose log and whose document it wrote,
\* the catalog it loaded, whether cancel() had been called before run(),
\* the records whose rendering began after cancel() was called, and the
\* options that were configured when run() was called
NoStat == [enumerated |-> 0, docWrites |-> 0, chunkWrites |-> 0,
           loadedContext |-> FALSE, failed |-> FALSE, cause |-> "none",
           options |-> {}, sessions |-> 0, logged |-> {}, written |-> {},
           catalog |-> 0, precancelled |-> FALSE, late |-> 0,
           configured |-> {}]
NoCut == [set |-> FALSE, key |-> <<"", "">>, k |-> 0, lastId |-> 0,
          options |-> {}, prior |-> <<>>, new |-> <<>>]
\* m_iTunesDb = NULL
NullDb == [live |-> FALSE, gen |-> 0]
\* releaseITunes followed by new ITunesDb in loadITunes
NewDb(db) == [live |-> TRUE, gen |-> db.gen + 1]
NoDamage == [kind |-> "none", key |-> <<"", "">>]
NoPrev == [set |-> FALSE, complete |-> FALSE, filter |-> NoFilter,
           options |-> {}, marks |-> EmptyMarks, docs |-> <<>>,
           damage |-> NoDamage]

\* the rendered output of the directory
Rendered == <<sessionDoc, chunkFile, userIndex, topIndex>>

MainInitFor(b) ==
    /\ backup = b
    /\ stateDir = FALSE
    /\ ctxFile = NoCtxFile
    /\ logFile = [k \in ConvKeys(b) |-> NoFile]
    /\ sessionDoc = [k \in ConvKeys(b) |-> NoDoc]
    /\ chunkFile = [k \in ConvKeys(b) |-> <<>>]
    /\ userIndex = [u \in UserNames(b) |-> NoIndex]
    /\ topIndex = NoIndex
    \* Exporter::Exporter
    /\ m_running = FALSE
    /\ m_cancelled = FALSE
    /\ m_options = {}
    /\ m_usersAndSessionsFilter = NoFilter
    /\ m_exportContext = NullContext
    /\ m_iTunesDb = NullDb
    /\ thread = "none"
    /\ pc = "idle" /\ ui = 0 /\ si = 0 /\ orgOptions = {}
    /\ htmlBody = <<>> /\ userBody = <<>> /\ taskQueue = 0
    /\ enumMin = 0 /\ enumLast = 0 /\ maxMsgId = 0 /\ numberOfMsgs = 0
    /\ messages = <<>>
    /\ dlCount = 0 /\ prevDlCount = 0
    /\ lastRun = NoRun
    /\ lastWait = "none"
    /\ liveWorkers = 0
    /\ report = NoReport
    /\ notified = NoNote
    /\ passNo = 0
    /\ passStat = NoStat
    /\ cut = NoCut
    /\ prev = NoPrev

CurUser == backup[ui]
CurSession == backup[ui].sessions[si]
CurKey == <<CurUser.name, CurSession.name>>
FilterOn == DOMAIN m_usersAndSessionsFilter # {}

\* ---- the control surface, called from the control thread ----

\* setOrder, setIncrementalExporting and filterUsersAndSessions on an
\* instance that has not run yet
ConfigureWith(optionSets, filters) ==
    /\ ~m_running /\ thread = "none"
    /\ \E opts \in optionSets, f \in filters :
          /\ <<opts, f>> # <<m_options, m_usersAndSessionsFilter>>
          /\ m_options' = opts
          /\ m_usersAndSessionsFilter' = f
    /\ UNCHANGED <<env, shareDomain, nameVars, filterVars, logVars, pageSize, lastWait, backup, m_iTunesDb, notified, dlCount, prevDlCount, stateDir, ctxFile, logFile,
                   sessionDoc, chunkFile, userIndex, topIndex, m_running,
                   m_cancelled, m_exportContext, thread, pc, ui, si,
                   orgOptions, htmlBody, userBody, taskQueue, enumMin,
                   enumLast, maxMsgId, numberOfMsgs, messages, lastRun,
                   liveWorkers, report, passNo, passStat, cut, prev>>

Configure == ConfigureWith(SUBSET {"INCR", "DESC"}, FilterChoices(backup))

\* run() without the test
RunBusyNever == FALSE

\* isRunning() || m_thread.joinable() in run()
RunBusy == m_running \/ thread # "none"

\* Exporter::run
Run ==
    /\ passNo < MaxPasses
    /\ \E outputExists \in BOOLEAN :
          IF RunBusy \/ ~outputExists
          THEN /\ lastRun' = [result |-> "false", busy |-> liveWorkers > 0]
               /\ UNCHANGED <<m_running, thread, pc, liveWorkers, passNo, passStat, cut,
                              lastWait>>
          ELSE /\ lastRun' = [result |-> "true", busy |-> liveWorkers > 0]
               /\ m_running' = TRUE
               /\ lastWait' = "none"
               /\ thread' = "running"
               /\ pc' = "start"
               /\ liveWorkers' = liveWorkers + 1
               /\ passNo' = passNo + 1
               /\ passStat' = [NoStat EXCEPT !.precancelled = m_cancelled,
                                              !.configured = m_options]
               /\ cut' = NoCut
    /\ UNCHANGED <<env, shareDomain, nameVars, filterVars, logVars, pageSize, backup, m_iTunesDb, notified, dlCount, prevDlCount, stateDir, ctxFile, logFile,
                   sessionDoc, chunkFile, userIndex, topIndex, m_cancelled,
                   m_options, m_usersAndSessionsFilter, m_exportContext, ui,
                   si, orgOptions, htmlBody, userBody, taskQueue, enumMin,
                   enumLast, maxMsgId, numberOfMsgs, messages, report, prev>>

\* Exporter::cancel
Cancel ==
    /\ ~m_cancelled
    /\ m_cancelled' = TRUE
    /\ UNCHANGED <<env, shareDomain, nameVars, filterVars, logVars, pageSize, lastWait, backup, m_iTunesDb, notified, dlCount, prevDlCount, stateDir, ctxFile, logFile,
                   sessionDoc, chunkFile, userIndex, topIndex, m_running,
                   m_options, m_usersAndSessionsFilter, m_exportContext,
                   thread, pc, ui, si, orgOptions, htmlBody, userBody,
                   taskQueue, enumMin, enumLast, maxMsgId, numberOfMsgs,
                   messages, lastRun, liveWorkers, report, passNo, passStat,
                   cut, prev>>

\* Exporter::waitForComplition, once the call has ended: it returns at once
\* when isRunning() is false; otherwise it calls m_thread.join(), which
\* returns when the worker has ended (and blocks until then) and throws
\* std::system_error when m_thread is not joinable
WaitForComplition ==
    /\ ~(m_running /\ thread = "running")
    /\ IF ~m_running
       THEN lastWait' = "returned" /\ UNCHANGED thread
       ELSE IF thread = "finished"
       THEN lastWait' = "joined" /\ thread' = "none"
       ELSE lastWait' = "threw" /\ UNCHANGED thread
    /\ UNCHANGED <<env, shareDomain, nameVars, filterVars, logVars, pageSize, backup, m_iTunesDb, notified, dlCount, prevDlCount, stateDir, ctxFile, logFile,
                   sessionDoc, chunkFile, userIndex, topIndex, m_running,
                   m_cancelled, m_options, m_usersAndSessionsFilter,
                   m_exportContext, pc, ui, si, orgOptions, htmlBody,
                   userBody, taskQueue, enumMin, enumLast, maxMsgId,
                   numberOfMsgs, messages, lastRun, liveWorkers, report,
                   passNo, passStat, cut, prev>>

\* ~Exporter followed by Exporter::Exporter on the same output directory
NewExporter ==
    /\ m_running /\ thread = "none" /\ pc = "done"
    /\ passNo < MaxPasses
    /\ m_running' = FALSE
    /\ m_cancelled' = FALSE
    /\ m_options' = {}
    /\ m_usersAndSessionsFilter' = NoFilter
    /\ m_exportContext' = NullContext
    \* releaseITunes in the destructor
    /\ m_iTunesDb' = [m_iTunesDb EXCEPT !.live = FALSE]
    /\ pc' = "idle"
    /\ lastRun' = NoRun
    /\ lastWait' = "none"
    /\ prev' = [set |-> TRUE,
                complete |-> ~passStat.failed /\ ~report.cancelled,
                filter |-> m_usersAndSessionsFilter,
                options |-> passStat.options,
                marks |-> ctxFile.marks,
                docs |-> Rendered,
                damage |-> NoDamage]
    /\ UNCHANGED <<env, shareDomain, nameVars, filterVars, logVars, pageSize, backup, notified, dlCount, prevDlCount, stateDir, ctxFile, logFile,
                   sessionDoc, chunkFile, userIndex, topIndex, thread, ui,
                   si, orgOptions, htmlBody, userBody, taskQueue, enumMin,
                   enumLast, maxMsgId, numberOfMsgs, messages,
                   liveWorkers, report, passNo, passStat, cut>>

\* ---- the worker thread ----

\* loadITunes where a backup without the shared domain fails as well
LoadITunesStrict(primaryOk, shareOk) == primaryOk /\ shareOk

\* Exporter::loadITunes: the result of loading the domain
\* AppDomain-com.tencent.xin; that of the shared domain is not looked at
LoadITunes(primaryOk, shareOk) == primaryOk

\* a pass that runs with the configured options whatever context it loads
PassOptionsConfigured(configured, stored, usePrevious) == configured

\* the options runImpl goes on with: those of the context it loaded and the
\* incremental flag, else the configured ones
PassOptions(configured, stored, usePrevious) ==
    IF usePrevious THEN stored \cup {"INCR"} ELSE configured

\* runImpl begins: notifyStart
RunImplStart ==
    /\ pc = "start"
    /\ report' = [event |-> "start", cancelled |-> FALSE]
    /\ notified' = Notify(notified, "start", <<"", "">>, 0)
    /\ pc' = "load"
    /\ UNCHANGED <<env, shareDomain, nameVars, filterVars, logVars, pageSize, lastWait, backup, m_iTunesDb, dlCount, prevDlCount, stateDir, ctxFile, logFile,
                   sessionDoc, chunkFile, userIndex, topIndex, m_running,
                   m_cancelled, m_options, m_usersAndSessionsFilter,
                   m_exportContext, thread, ui, si, orgOptions, htmlBody,
                   userBody, taskQueue, enumMin, enumLast, maxMsgId,
                   numberOfMsgs, messages, lastRun, liveWorkers, passNo,
                   passStat, cut, prev>>

\* runImpl from loadITunes up to the loop over the accounts
RunImplLoad ==
    /\ pc = "load"
    \* loadITunes: releaseITunes, new ITunesDb
    /\ m_iTunesDb' = NewDb(m_iTunesDb)
    /\ \E primaryOk, accountsOk \in BOOLEAN :
          IF ~(LoadITunes(primaryOk, shareDomain) /\ accountsOk)
          THEN \* loadITunes or LoginInfo2Parser::parse fails: notifyComplete(), return false
               /\ report' = [event |-> "complete", cancelled |-> FALSE]
               /\ notified' = Notify(notified, "complete", <<"", "">>, 0)
               /\ passStat' = [passStat EXCEPT
                                  !.failed = TRUE,
                                  !.catalog = m_iTunesDb'.gen,
                                  !.cause = IF ~primaryOk THEN "index"
                                            ELSE IF ~LoadITunes(primaryOk, shareDomain)
                                                 THEN "share" ELSE "accounts"]
               /\ pc' = "done"
               /\ thread' = "finished"
               /\ liveWorkers' = liveWorkers - 1
               /\ UNCHANGED <<stateDir, m_exportContext, m_options, orgOptions, ui,
                              htmlBody>>
          ELSE LET fresh == IF m_exportContext.alive THEN m_exportContext ELSE NewContext
                   load == LoadExportContext(ctxFile, fresh)
                   usePrevious == "INCR" \in m_options /\ load.ok
               IN  \* makeDirectory(m_output/.wxexp)
                   /\ stateDir' = TRUE
                   /\ orgOptions' = m_options
                   /\ m_options' = PassOptions(m_options, load.ctx.options, usePrevious)
                   /\ m_exportContext' =
                          IF usePrevious THEN load.ctx
                          ELSE IF "INCR" \in m_options
                               THEN [load.ctx EXCEPT !.options = m_options]
                               ELSE [fresh EXCEPT !.options = m_options]
                   /\ passStat' = [passStat EXCEPT !.loadedContext = usePrevious,
                                                   !.options = m_options',
                                                   !.catalog = m_iTunesDb'.gen]
                   /\ ui' = 1
                   /\ htmlBody' = <<>>
                   /\ pc' = "users"
                   /\ UNCHANGED <<thread, liveWorkers, report, notified>>
    /\ UNCHANGED <<env, shareDomain, nameVars, filterVars, logVars, pageSize, lastWait, backup, dlCount, prevDlCount, ctxFile, logFile,
                   sessionDoc, chunkFile, userIndex, topIndex, m_running,
                   m_cancelled, m_usersAndSessionsFilter, si, userBody,
                   taskQueue, enumMin, enumLast, maxMsgId, numberOfMsgs,
                   messages, lastRun, passNo, cut, prev>>

\* the loop over the accounts going on after cancel()
CancelIgnored(cancelled) == FALSE

\* if (m_cancelled) break; at the head of the loop over the accounts
CancelBreaks(cancelled) == cancelled

\* the worker reads the catalog it loaded, or one that was deleted since
CatalogStale == ~m_iTunesDb.live \/ m_iTunesDb.gen # passStat.catalog

\* what a read through the worker's pointer or reference to the catalog can
\* do: a read of a deleted ITunesDb is undefined, it may go through or fault
CatalogReads == IF CatalogStale THEN {"ok", "fault"} ELSE {"ok"}

\* one turn of the loop over the accounts in runImpl, down to the loop over
\* the conversations in exportUser
UserLoop ==
    /\ pc = "users"
    /\ IF ui > Len(backup) \/ CancelBreaks(m_cancelled)
       THEN pc' = "finish" /\ UNCHANGED <<ui, si, userBody, taskQueue>>
       ELSE IF FilterOn /\ CurUser.name \notin DOMAIN m_usersAndSessionsFilter
       THEN ui' = ui + 1 /\ UNCHANGED <<pc, si, userBody, taskQueue>>
       ELSE \* loadUserFriendsAndSessions reads m_iTunesDb
            \E read \in CatalogReads :
               IF read = "fault"
               THEN pc' = "crashed" /\ UNCHANGED <<ui, si, userBody, taskQueue>>
               ELSE /\ si' = 1
                    /\ userBody' = <<>>
                    /\ taskQueue' = 0
                    /\ pc' = "sessions"
                    /\ UNCHANGED ui
    /\ UNCHANGED <<env, shareDomain, nameVars, filterVars, logVars, pageSize, lastWait, backup, m_iTunesDb, notified, dlCount, prevDlCount, stateDir, ctxFile, logFile,
                   sessionDoc, chunkFile, userIndex, topIndex, m_running,
                   m_cancelled, m_options, m_usersAndSessionsFilter,
                   m_exportContext, thread, orgOptions, htmlBody, enumMin,
                   enumLast, maxMsgId, numberOfMsgs, messages, lastRun,
                   liveWorkers, report, passNo, passStat, cut, prev>>

\* the enumerator built with no threshold
EnumThresholdNone(ctx, usrName) == 0

\* the threshold exportSession builds the enumerator with
EnumThreshold(ctx, usrName) == GetMaxId(ctx, usrName, 0)

\* one turn of the loop over the conversations in exportUser, down to the
\* loop over the records in exportSession
SessionLoop ==
    /\ pc = "sessions"
    /\ IF si > Len(CurUser.sessions) \/ m_cancelled
       THEN pc' = "userTail"
            /\ UNCHANGED <<si, enumMin, enumLast, maxMsgId, numberOfMsgs, messages,
                           passStat, notified>>
       ELSE IF FilterOn /\ CurSession.name \notin m_usersAndSessionsFilter[CurUser.name]
       THEN si' = si + 1
            /\ UNCHANGED <<pc, enumMin, enumLast, maxMsgId, numberOfMsgs, messages,
                           passStat, notified>>
       ELSE \* notifySessionStart; a subscription or an empty store exports nothing
            /\ notified' = Notify(notified, "sessionStart", CurKey, 0)
            /\ messages' = <<>>
            /\ numberOfMsgs' = 0
            /\ IF CurSession.sub \/ CurSession.dbEmpty
               THEN pc' = "sessionDone"
                    /\ UNCHANGED <<enumMin, enumLast, maxMsgId, passStat>>
               ELSE /\ maxMsgId' = EnumThreshold(m_exportContext, CurSession.name)
                    /\ enumMin' = maxMsgId'
                    /\ enumLast' = maxMsgId'
                    /\ passStat' = [passStat EXCEPT !.sessions = @ + 1]
                    /\ pc' = "records"
            /\ UNCHANGED si
    /\ UNCHANGED <<env, shareDomain, nameVars, filterVars, logVars, pageSize, lastWait, backup, m_iTunesDb, dlCount, prevDlCount, stateDir, ctxFile, logFile,
                   sessionDoc, chunkFile, userIndex, topIndex, m_running,
                   m_cancelled, m_options, m_usersAndSessionsFilter,
                   m_exportContext, thread, ui, orgOptions, htmlBody,
                   userBody, taskQueue, lastRun, liveWorkers, report, passNo,
                   cut, prev>>

\* exportMessage dropping the fragment once the pass is cancelled
ExportMessageUnlessCancelled(msgs, r, cancelled) ==
    IF cancelled THEN msgs ELSE Append(msgs, Render(r))

\* Exporter::exportMessage: the fragment of the record joins the fragments
ExportMessage(msgs, r, cancelled) == Append(msgs, Render(r))

\* the loop over the records going on after cancel()
RecordLoopGoesOn(cancelled) == FALSE

\* `if (m_cancelled) break;` at the end of a turn of the loop over the records
RecordLoopBreaks(cancelled) == cancelled

\* one turn of the loop over the records in exportSession
RecordLoop ==
    /\ pc = "records"
    /\ IF Pending(CurSession.recs, enumLast) = {}
       THEN pc' = "flush"
            /\ UNCHANGED <<enumLast, maxMsgId, numberOfMsgs, messages, taskQueue,
                           passStat, cut, notified>>
       ELSE \* MessageParser reads the catalog it holds a reference to
            \E read \in CatalogReads :
            IF read = "fault"
            THEN pc' = "crashed"
                 /\ UNCHANGED <<enumLast, maxMsgId, numberOfMsgs, messages, taskQueue,
                                passStat, cut, notified>>
            ELSE
            LET id == NextMessage(CurSession.recs, enumLast)
                more == Pending(CurSession.recs, id) # {}
            IN  /\ enumLast' = id
                /\ maxMsgId' = IF id > maxMsgId THEN id ELSE maxMsgId
                /\ messages' = ExportMessage(messages, id, m_cancelled)
                /\ numberOfMsgs' = numberOfMsgs + 1
                /\ notified' = Notify(notified, "sessionProgress", CurKey, numberOfMsgs')
                /\ taskQueue' = IF id \in CurSession.media THEN taskQueue + 1
                                ELSE taskQueue
                /\ passStat' = [passStat EXCEPT
                                    !.enumerated = @ + 1,
                                    !.late = @ + IF m_cancelled THEN 1 ELSE 0]
                /\ pc' = IF RecordLoopBreaks(m_cancelled) THEN "flush" ELSE "records"
                /\ cut' = IF m_cancelled /\ more
                          THEN [set |-> TRUE, key |-> CurKey,
                                k |-> numberOfMsgs', lastId |-> id,
                                options |-> m_options,
                                prior |-> UnserializeMessages(env, logFile[CurKey],
                                                              <<>>).messages,
                                new |-> messages']
                          ELSE cut
    /\ UNCHANGED <<env, shareDomain, nameVars, filterVars, logVars, pageSize, lastWait, backup, m_iTunesDb, dlCount, prevDlCount, stateDir, ctxFile, logFile,
                   sessionDoc, chunkFile, userIndex, topIndex, m_running,
                   m_cancelled, m_options, m_usersAndSessionsFilter,
                   m_exportContext, thread, ui, si, orgOptions, htmlBody,
                   userBody, enumMin, lastRun, liveWorkers, report, passNo,
                   prev>>

\* the log written without the merge
LogContentUnmerged(merged, rendered, options) == rendered

\* the log merged with its prior content in every pass
LogContentMerged(merged, rendered, options) == merged

\* the fragments exportSession writes to the log
LogContent(merged, rendered, options) ==
    IF "INCR" \in options THEN merged ELSE rendered

\* the context left as it is after the loop over the records
MarkNever(ctx, usrName, maxId) == ctx

\* the context after the loop over the records in exportSession
MarkAfterLoop(ctx, usrName, maxId) ==
    IF maxId > 0 THEN SetMaxId(ctx, usrName, maxId) ELSE ctx

\* exportSession after the loop over the records: setMaxId
AdvanceMark ==
    /\ pc = "flush"
    /\ m_exportContext' = MarkAfterLoop(m_exportContext, CurSession.name, maxMsgId)
    /\ pc' = "merge"
    /\ UNCHANGED <<env, shareDomain, nameVars, filterVars, logVars, pageSize, lastWait, backup, m_iTunesDb, notified, dlCount, prevDlCount, stateDir, ctxFile, logFile,
                   sessionDoc, chunkFile, userIndex, topIndex, m_running,
                   m_cancelled, m_options, m_usersAndSessionsFilter, thread,
                   ui, si, orgOptions, htmlBody, userBody, taskQueue, enumMin,
                   enumLast, maxMsgId, numberOfMsgs, messages, lastRun,
                   liveWorkers, report, passNo, passStat, cut, prev>>

\* the pages written whenever the log holds a fragment
WritesPagesAnyLog(n, all) == all # <<>>

\* exportSession writes the document and the pages
WritesPages(n, all) == n > 0 /\ all # <<>>

\* exportSession from mergeMessages on
Flush ==
    /\ pc = "merge"
    /\ LET merge == MergeMessages(env, logFile[CurKey], messages, m_options)
           all == LogContent(merge.messages, messages, m_options)
           page == Paginate(all, m_options, pageSize)
           paged == WritesPages(numberOfMsgs, all)
       IN  /\ IF "INCR" \in m_options /\ merge.outcome # "ok"
              THEN \* the exception leaves the thread function: std::terminate
                   /\ pc' = "crashed"
                   /\ UNCHANGED <<logFile, sessionDoc, chunkFile, messages, passStat>>
              ELSE /\ logFile' = [logFile EXCEPT ![CurKey] = File(SerializeMessages(all))]
                   /\ messages' = all
                   /\ sessionDoc' =
                          IF paged
                          THEN [sessionDoc EXCEPT ![CurKey] =
                                   [exists |-> TRUE, body |-> page.body,
                                    numberOfMsgs |-> page.numberOfMsgs,
                                    numberOfPages |-> page.numberOfPages]]
                          ELSE sessionDoc
                   /\ chunkFile' =
                          IF paged
                          THEN [chunkFile EXCEPT ![CurKey] =
                                   page.chunks \o SubSeq(@, Len(page.chunks) + 1, Len(@))]
                          ELSE chunkFile
                   /\ passStat' =
                          IF paged
                          THEN [passStat EXCEPT !.docWrites = @ + 1,
                                                !.chunkWrites = @ + Len(page.chunks),
                                                !.logged = @ \cup {CurKey},
                                                !.written = @ \cup {CurKey}]
                          ELSE [passStat EXCEPT !.logged = @ \cup {CurKey}]
                   /\ pc' = "sessionDone"
    /\ UNCHANGED <<env, shareDomain, nameVars, filterVars, logVars, pageSize, lastWait, backup, m_iTunesDb, notified, dlCount, prevDlCount, stateDir, ctxFile, userIndex,
                   topIndex, m_running, m_cancelled, m_options,
                   m_usersAndSessionsFilter, m_exportContext, thread, ui, si, orgOptions,
                   htmlBody, userBody, taskQueue, enumMin, enumLast,
                   maxMsgId, numberOfMsgs, lastRun, liveWorkers, report,
                   passNo, cut, prev>>

\* the conversation left open
NotifyNothing(n, key, cancelled) == n

\* notifySessionComplete(usrName, data, m_cancelled)
NotifySessionComplete(n, key, cancelled) == Notify(n, "sessionComplete", key, 0)

\* exportUser after exportSession has returned, or for a conversation it skips
SessionDone ==
    /\ pc = "sessionDone"
    /\ userBody' = IF numberOfMsgs > 0 THEN Append(userBody, CurSession.name)
                   ELSE userBody
    /\ notified' = NotifySessionComplete(notified, CurKey, m_cancelled)
    /\ si' = si + 1
    /\ pc' = "sessions"
    /\ UNCHANGED <<env, shareDomain, nameVars, filterVars, logVars, pageSize, lastWait, backup, m_iTunesDb, dlCount, prevDlCount, stateDir, ctxFile, logFile,
                   sessionDoc, chunkFile, userIndex, topIndex, m_running,
                   m_cancelled, m_options, m_usersAndSessionsFilter,
                   m_exportContext, thread, ui, orgOptions, htmlBody,
                   taskQueue, enumMin, enumLast, maxMsgId, numberOfMsgs,
                   messages, lastRun, liveWorkers, report, passNo, passStat,
                   cut, prev>>

\* exportUser after the loop over the conversations, up to notifyTasksStart
UserTail ==
    /\ pc = "userTail"
    /\ userIndex' = [userIndex EXCEPT ![CurUser.name] =
                        [exists |-> TRUE, items |-> userBody]]
    \* taskManager.cancel() drops what is queued; shutdown() lets it drain
    /\ taskQueue' = IF m_cancelled THEN 0 ELSE taskQueue
    /\ dlCount' = taskQueue'
    /\ prevDlCount' = dlCount'
    /\ notified' = Notify(notified, "tasksStart", <<CurUser.name, "">>, dlCount')
    /\ pc' = "taskWait"
    /\ UNCHANGED <<env, shareDomain, nameVars, filterVars, logVars, pageSize, lastWait, backup, m_iTunesDb, stateDir, ctxFile, logFile,
                   sessionDoc, chunkFile, topIndex, m_running, m_cancelled,
                   m_options, m_usersAndSessionsFilter, m_exportContext,
                   thread, ui, si, orgOptions, htmlBody, userBody, enumMin,
                   enumLast, maxMsgId, numberOfMsgs, messages, lastRun,
                   liveWorkers, report, passNo, passStat, cut, prev>>

\* the loop left at its first turn
TasksCompleteAtOnce(queue) == TRUE

\* a task manager that never reports its pool drained
TasksCompleteNever(queue) == FALSE

\* taskManager.waitForCompltion(timeout) ends the loop
TasksComplete(queue) == queue = 0

\* one turn of the loop around taskManager.waitForCompltion, and the end of
\* exportUser once it is left
TaskWait ==
    /\ pc = "taskWait"
    /\ IF TasksComplete(taskQueue)
       THEN \* the loop is left; notifyTasksProgress if the queue moved since
            /\ notified' = IF dlCount # prevDlCount
                           THEN Notify(notified, "tasksProgress", <<CurUser.name, "">>,
                                       dlCount - prevDlCount)
                           ELSE notified
            /\ pc' = "tasksEnd"
            /\ UNCHANGED <<taskQueue, prevDlCount>>
       ELSE IF m_cancelled
       THEN \* taskManager.cancel()
            /\ taskQueue' = 0
            /\ UNCHANGED <<pc, notified, prevDlCount>>
       ELSE \* every other turn: notifyTasksProgress if the queue has moved
            /\ taskQueue # prevDlCount
            /\ notified' = Notify(notified, "tasksProgress", <<CurUser.name, "">>,
                                  prevDlCount - taskQueue)
            /\ prevDlCount' = taskQueue
            /\ UNCHANGED <<pc, taskQueue>>
    /\ UNCHANGED <<env, shareDomain, nameVars, filterVars, logVars, pageSize, lastWait, backup, m_iTunesDb, dlCount, stateDir, ctxFile, logFile,
                   sessionDoc, chunkFile, userIndex, topIndex, m_running,
                   m_cancelled, m_options, m_usersAndSessionsFilter,
                   m_exportContext, thread, ui, si, orgOptions, htmlBody, userBody,
                   enumMin, enumLast, maxMsgId, numberOfMsgs, messages,
                   lastRun, liveWorkers, report, passNo, passStat, cut, prev>>

\* the end of exportUser: notifyTasksComplete; back in runImpl the account
\* joins the index
TasksEnd ==
    /\ pc = "tasksEnd"
    /\ notified' = Notify(notified, "tasksComplete", <<CurUser.name, "">>, 0)
    /\ htmlBody' = Append(htmlBody, CurUser.name)
    /\ ui' = ui + 1
    /\ pc' = "users"
    /\ UNCHANGED <<env, shareDomain, nameVars, filterVars, logVars, pageSize, lastWait, backup, m_iTunesDb, dlCount, prevDlCount, stateDir, ctxFile, logFile,
                   sessionDoc, chunkFile, userIndex, topIndex, m_running,
                   m_cancelled, m_options, m_usersAndSessionsFilter,
                   m_exportContext, thread, si, orgOptions, userBody, taskQueue,
                   enumMin, enumLast, maxMsgId, numberOfMsgs, messages,
                   lastRun, liveWorkers, report, passNo, passStat, cut, prev>>

\* a worker of the TaskManager finishes a task
TaskDone ==
    /\ pc \in {"sessions", "records", "flush", "merge", "sessionDone", "userTail",
              "taskWait"}
    /\ taskQueue > 0
    /\ taskQueue' = taskQueue - 1
    /\ UNCHANGED <<env, shareDomain, nameVars, filterVars, logVars, pageSize, lastWait, backup, m_iTunesDb, notified, dlCount, prevDlCount, stateDir, ctxFile, logFile,
                   sessionDoc, chunkFile, userIndex, topIndex, m_running,
                   m_cancelled, m_options, m_usersAndSessionsFilter,
                   m_exportContext, thread, pc, ui, si, orgOptions, htmlBody,
                   userBody, enumMin, enumLast, maxMsgId, numberOfMsgs,
                   messages, lastRun, liveWorkers, report, passNo, passStat,
                   cut, prev>>

\* the context written at the end of every pass
PersistsContextAlways(ctx) == TRUE

\* runImpl writes the context file
PersistsContext(ctx) == GetNumberOfSessions(ctx) > 0

\* runImpl after the loop over the accounts
Finish ==
    /\ pc = "finish"
    /\ topIndex' = [exists |-> TRUE, items |-> htmlBody]
    /\ m_options' = orgOptions
    /\ ctxFile' = IF PersistsContext(m_exportContext)
                  THEN SerializeContext(RefreshExportTime(m_exportContext, passNo))
                  ELSE ctxFile
    /\ m_exportContext' = NullContext
    /\ report' = [event |-> "complete", cancelled |-> m_cancelled]
    /\ notified' = Notify(notified, "complete", <<"", "">>, 0)
    /\ pc' = "done"
    /\ thread' = "finished"
    /\ liveWorkers' = liveWorkers - 1
    /\ UNCHANGED <<env, shareDomain, nameVars, filterVars, logVars, pageSize, lastWait, backup, m_iTunesDb, dlCount, prevDlCount, stateDir, logFile, sessionDoc,
                   chunkFile, userIndex, m_running, m_cancelled,
                   m_usersAndSessionsFilter, ui, si, orgOptions, htmlBody,
                   userBody, taskQueue, enumMin, enumLast, maxMsgId,
                   numberOfMsgs, messages, lastRun, passNo, passStat, cut,
                   prev>>

Next ==
    \/ Configure \/ Run \/ Cancel \/ WaitForComplition \/ NewExporter
    \/ RunImplStart \/ RunImplLoad \/ UserLoop \/ SessionLoop \/ RecordLoop \/ AdvanceMark
    \/ Flush \/ SessionDone \/ UserTail \/ TaskWait \/ TasksEnd \/ TaskDone \/ Finish

\* no call of buildFileNameForUser yet
NoName == [succeeded |-> FALSE, outputFileName |-> <<>>]
NameQuiet ==
    /\ nmNames = <<>> /\ nmExisting = {} /\ nmAssigned = <<>> /\ nmOut = NoName

\* ITunesDb::filter is not called
FilterQuiet == m_files = <<>> /\ ftPrefix = <<>> /\ ftOp = "none" /\ ftOut = <<>>

LogQuiet ==
    /\ lgOld = <<>> /\ lgFile = NoFile /\ lgDamaged = FALSE /\ lgPokes = 0
    /\ lgNew = <<>> /\ lgOpts = {} /\ lgOp = "none" /\ lgOut = NoResult
    /\ lgStep = 0

\* the build the passes run on; no log a pass writes holds an empty fragment
MainEnv == [checked |-> TRUE, lowMem |-> TRUE]

Init ==
    /\ env = MainEnv
    /\ shareDomain = TRUE
    /\ FilterQuiet
    /\ NameQuiet
    /\ pageSize = 1000
    /\ MainInitFor(MainBackup)
    /\ LogQuiet

Spec == Init /\ [][Next]_vars

\* the steps of the worker thread, Exporter::run's std::thread
Worker ==
    \/ RunImplStart \/ RunImplLoad \/ UserLoop \/ SessionLoop \/ RecordLoop
    \/ AdvanceMark \/ Flush \/ SessionDone \/ UserTail \/ TaskWait \/ TasksEnd
    \/ Finish

\* a backup of two accounts; the records of the first account's conversation
\* queue a task each
LiveBackup ==
    << [name |-> "u1",
        sessions |-> << Session("a", 2, FALSE, FALSE, {1, 2}) >>],
       [name |-> "u2",
        sessions |-> << Session("a", 1, FALSE, FALSE, {}) >>] >>

LiveInit ==
    /\ env = MainEnv
    /\ shareDomain = TRUE
    /\ FilterQuiet
    /\ NameQuiet
    /\ pageSize = 1000
    /\ MainInitFor(LiveBackup)
    /\ LogQuiet

\* one instance of Exporter: the control thread configures, runs, cancels and
\* waits while the worker and the task manager take their steps
LiveNext ==
    \/ Configure \/ Run \/ Cancel \/ WaitForComplition
    \/ Worker \/ TaskDone

\* SpecLive: the pass of one instance over LiveBackup where the worker
\* thread, once started, keeps being scheduled, and the task manager keeps
\* finishing the tasks it holds
SpecLive == LiveInit /\ [][LiveNext]_vars /\ WF_vars(Worker) /\ WF_vars(TaskDone)

-----------------------------------------------------------------------------
(* SpecScenario: passes over a backup of one account with one conversation *)
(* of 1500 records, in ascending order, never cancelled.                   *)

ScenarioBackup ==
    << [name |-> "u1",
        sessions |-> << Session("a", 1500, FALSE, FALSE, {1500}) >>] >>

ScenarioInit ==
    /\ env = MainEnv
    /\ shareDomain = TRUE
    /\ FilterQuiet
    /\ NameQuiet
    /\ pageSize = 1000
    /\ MainInitFor(ScenarioBackup)
    /\ LogQuiet

\* setIncrementalExporting(true) on an instance that has not run yet
ScenarioConfigure == ConfigureWith({{"INCR"}}, {NoFilter})

ScenarioNext ==
    \/ ScenarioConfigure \/ Run \/ WaitForComplition \/ NewExporter
    \/ RunImplStart \/ RunImplLoad \/ UserLoop \/ SessionLoop \/ RecordLoop \/ AdvanceMark
    \/ Flush \/ SessionDone \/ UserTail \/ TaskWait \/ TasksEnd \/ TaskDone \/ Finish

SpecScenario == ScenarioInit /\ [][ScenarioNext]_vars

-----------------------------------------------------------------------------
(* SpecState: incremental passes over a backup of one account with two     *)
(* conversations, with or without the shared domain, never cancelled;      *)
(* between two passes the folder .wxexp may lose or have damaged one file. *)

StateBackup ==
    << [name |-> "u1",
        sessions |-> << Session("a", MaxRecords, FALSE, FALSE, {}),
                        Session("b", 1, FALSE, FALSE, {}) >>] >>

StateInit ==
    /\ env = MainEnv
    /\ shareDomain \in BOOLEAN
    /\ FilterQuiet
    /\ NameQuiet
    /\ pageSize = 1000
    /\ MainInitFor(StateBackup)
    /\ LogQuiet

\* what loadExportContext can find in place of the context a pass
\* persisted: no or an empty file, contents unserialize() rejects, or a
\* context without entries
ContextDamages == {"missing", "malformed", "noEntries"}
DamagedContext(file, how) ==
    IF how = "missing" THEN NoCtxFile
    ELSE IF how = "malformed" THEN [file EXCEPT !.bad = TRUE]
    ELSE [file EXCEPT !.marks = EmptyMarks]

\* wxexp.dat is lost or damaged between two passes
LoseContext ==
    /\ pc = "idle" /\ prev.set /\ prev.damage = NoDamage
    /\ ctxFile.exists
    /\ \E how \in ContextDamages :
          /\ ctxFile' = DamagedContext(ctxFile, how)
          /\ prev' = [prev EXCEPT !.damage = [kind |-> how, key |-> <<"", "">>]]
    /\ UNCHANGED <<env, shareDomain, nameVars, filterVars, logVars, pageSize, lastWait, backup, m_iTunesDb, notified, dlCount, prevDlCount, stateDir, logFile,
                   sessionDoc, chunkFile, userIndex, topIndex, instVars,
                   workVars, seenVars, passNo, passStat, cut>>

\* what mergeMessages can find in place of the log a pass wrote: no file,
\* or the file short of its last byte
LogDamages == {"logMissing", "logCut"}
DamagedLog(file, how) ==
    IF how = "logMissing" THEN NoFile
    ELSE File(SubSeq(file.data, 1, Len(file.data) - 1))

\* the fragment log of a conversation is lost or damaged between two passes
LoseLog ==
    /\ pc = "idle" /\ prev.set /\ prev.damage = NoDamage
    /\ \E k \in ConvKeys(backup), how \in LogDamages :
          /\ logFile[k].exists /\ logFile[k].data # <<>>
          /\ logFile' = [logFile EXCEPT ![k] = DamagedLog(@, how)]
          /\ prev' = [prev EXCEPT !.damage = [kind |-> how, key |-> k]]
    /\ UNCHANGED <<env, shareDomain, nameVars, filterVars, logVars, pageSize, lastWait, backup, m_iTunesDb, notified, dlCount, prevDlCount, stateDir, ctxFile,
                   sessionDoc, chunkFile, userIndex, topIndex, instVars,
                   workVars, seenVars, passNo, passStat, cut>>

StateNext ==
    \/ ScenarioConfigure \/ Run \/ WaitForComplition \/ NewExporter
    \/ RunImplStart \/ RunImplLoad \/ UserLoop \/ SessionLoop \/ RecordLoop \/ AdvanceMark
    \/ Flush \/ SessionDone \/ UserTail \/ TaskWait \/ TasksEnd \/ Finish
    \/ LoseContext \/ LoseLog

SpecState == StateInit /\ [][StateNext]_vars

-----------------------------------------------------------------------------
(* SpecCatalog: passes over a backup with one account while the control    *)
(* thread calls loadUsersAndSessions, which is public and tests nothing    *)
(* before it rebuilds the catalog.                                         *)

\* Exporter::loadUsersAndSessions: loadITunes(false) deletes the catalog
\* m_iTunesDb points to and builds another; notifyComplete() when that fails
LoadUsersAndSessions ==
    /\ m_iTunesDb.gen < MaxPasses + MaxLoads
    /\ m_iTunesDb' = NewDb(m_iTunesDb)
    /\ \E primaryOk \in BOOLEAN :
          IF LoadITunes(primaryOk, shareDomain)
          THEN UNCHANGED <<report, notified>>
          ELSE /\ report' = [event |-> "complete", cancelled |-> FALSE]
               /\ notified' = Notify(notified, "complete", <<"", "">>, 0)
    /\ UNCHANGED <<env, shareDomain, nameVars, filterVars, logVars, pageSize, lastWait, backup, dlCount, prevDlCount, stateDir, ctxFile, logFile,
                   sessionDoc, chunkFile, userIndex, topIndex, m_running,
                   m_cancelled, m_options, m_usersAndSessionsFilter,
                   m_exportContext, thread, pc, ui, si, orgOptions, htmlBody,
                   userBody, taskQueue, enumMin, enumLast, maxMsgId,
                   numberOfMsgs, messages, lastRun, liveWorkers, passNo,
                   passStat, cut, prev>>

CatalogInit ==
    /\ env = MainEnv
    /\ shareDomain = TRUE
    /\ FilterQuiet
    /\ NameQuiet
    /\ LogQuiet
    /\ pageSize = 1000
    /\ MainInitFor(StateBackup)

CatalogNext ==
    \/ Run \/ Cancel \/ WaitForComplition \/ NewExporter
    \/ RunImplStart \/ RunImplLoad \/ UserLoop \/ SessionLoop \/ RecordLoop \/ AdvanceMark
    \/ Flush \/ SessionDone \/ UserTail \/ TaskWait \/ TasksEnd \/ Finish
    \/ LoadUsersAndSessions

SpecCatalog == CatalogInit /\ [][CatalogNext]_vars

-----------------------------------------------------------------------------
(* SpecPage: exportSession leaves the loop over the records of the only    *)
(* conversation of a backup with n fragments rendered, in either build and *)
(* under every combination of the options that pagination reads.           *)

\* lengths at and around the multiples of the page size
PageLens(size) ==
    {n \in {k * size + d : k \in 0..MaxPages, d \in {-1, 0, 1, size \div 2}} : n >= 1}

PageBackup(n) ==
    << [name |-> "u1", sessions |-> << Session("a", n, FALSE, FALSE, {}) >>] >>

PageInit ==
    /\ env = MainEnv
    /\ shareDomain = TRUE
    /\ FilterQuiet
    /\ NameQuiet
    /\ LogQuiet
    /\ pageSize \in {500, 1000}
    /\ m_options \in SUBSET {"TEXT", "SYNC", "DESC", "INCR"}
    /\ \E n \in PageLens(pageSize) :
          /\ backup = PageBackup(n)
          /\ messages = [i \in 1..n |-> Render(i)]
          /\ numberOfMsgs = n /\ maxMsgId = n /\ enumLast = n
          /\ passStat = [NoStat EXCEPT !.enumerated = n, !.options = m_options,
                                       !.catalog = 1, !.configured = m_options]
    /\ orgOptions = m_options
    /\ m_exportContext = [NewContext EXCEPT !.options = m_options]
    /\ m_iTunesDb = NewDb(NullDb)
    /\ stateDir = TRUE
    /\ ctxFile = NoCtxFile
    /\ logFile = [k \in ConvKeys(backup) |-> NoFile]
    /\ sessionDoc = [k \in ConvKeys(backup) |-> NoDoc]
    /\ chunkFile = [k \in ConvKeys(backup) |-> <<>>]
    /\ userIndex = [u \in UserNames(backup) |-> NoIndex]
    /\ topIndex = NoIndex
    /\ m_running = TRUE /\ m_cancelled = FALSE
    /\ m_usersAndSessionsFilter = NoFilter
    /\ thread = "running"
    /\ pc = "flush" /\ ui = 1 /\ si = 1
    /\ htmlBody = <<>> /\ userBody = <<>> /\ taskQueue = 0
    /\ enumMin = 0
    /\ lastRun = [result |-> "true", busy |-> FALSE]
    /\ lastWait = "none"
    /\ liveWorkers = 1
    /\ report = [event |-> "start", cancelled |-> FALSE]
    /\ notified = Notify(Notify(NoNote, "start", <<"", "">>, 0),
                         "sessionStart", <<"u1", "a">>, 0)
    /\ dlCount = 0 /\ prevDlCount = 0
    /\ passNo = 1
    /\ cut = NoCut
    /\ prev = NoPrev

PageNext == AdvanceMark \/ Flush \/ SessionDone

SpecPage == PageInit /\ [][PageNext]_vars

-----------------------------------------------------------------------------
(* SpecLog: the three functions applied to drawn fragment sequences and to *)
(* files damaged after they were written.                                  *)

LogFrags == SeqsUpTo(SeqsUpTo(ByteSample \ {0}, MaxFragLen), MaxFrags)

LogInit ==
    /\ env \in Envs
    /\ shareDomain = TRUE
    /\ FilterQuiet
    /\ NameQuiet
    /\ lgOld \in LogFrags
    /\ lgFile = NoFile
    /\ lgDamaged = FALSE
    /\ lgPokes = 0
    /\ lgNew = <<>>
    /\ lgOpts = {}
    /\ lgOp = "none"
    /\ lgOut = NoResult
    /\ lgStep = 0
    /\ pageSize = 1000
    /\ MainInitFor(MainBackup)

LogOpen == lgOp \notin {"unserialize", "merge"}

\* serializeMessages(fileName, lgOld)
LogWrite ==
    /\ lgOp = "none"
    /\ lgFile' = File(SerializeMessages(lgOld))
    /\ lgOp' = "serialize"
    /\ UNCHANGED <<env, shareDomain, nameVars, filterVars, mainVars, lgStep, lgOld, lgDamaged, lgPokes, lgNew, lgOpts, lgOut>>

\* the file is cut short from outside
LogTruncate ==
    /\ LogOpen /\ lgFile.exists
    /\ \E k \in 0..(Len(lgFile.data) - 1) :
          lgFile' = File(SubSeq(lgFile.data, 1, k))
    /\ lgDamaged' = TRUE
    /\ lgOp' = "damage"
    /\ UNCHANGED <<env, shareDomain, nameVars, filterVars, mainVars, lgStep, lgOld, lgPokes, lgNew, lgOpts, lgOut>>

\* one byte of the file is overwritten from outside
LogPoke ==
    /\ LogOpen /\ lgFile.exists /\ lgPokes < MaxPokes
    /\ \E i \in 1..Len(lgFile.data), b \in ByteSample :
          /\ lgFile.data[i] # b
          /\ lgFile' = File([lgFile.data EXCEPT ![i] = b])
    /\ lgDamaged' = TRUE
    /\ lgPokes' = lgPokes + 1
    /\ lgOp' = "damage"
    /\ UNCHANGED <<env, shareDomain, nameVars, filterVars, mainVars, lgStep, lgOld, lgNew, lgOpts, lgOut>>

\* unserializeMessages(fileName, messages) on an empty vector
LogRead ==
    /\ LogOpen
    /\ lgOut' = UnserializeMessages(env, lgFile, <<>>)
    /\ lgOp' = "unserialize"
    /\ UNCHANGED <<env, shareDomain, nameVars, filterVars, mainVars, lgStep, lgOld, lgFile, lgDamaged, lgPokes, lgNew, lgOpts>>

\* mergeMessages(fileName, messages) under either display order
LogMerge ==
    /\ LogOpen
    /\ \E new \in SeqsUpTo({<<7>>, <<>>}, MaxFrags), opts \in {{}, {"DESC"}} :
          /\ lgNew' = new
          /\ lgOpts' = opts
          /\ lgOut' = MergeMessages(env, lgFile, new, opts)
    /\ lgOp' = "merge"
    /\ UNCHANGED <<env, shareDomain, nameVars, filterVars, mainVars, lgStep, lgOld, lgFile, lgDamaged, lgPokes>>

LogNext == LogWrite \/ LogTruncate \/ LogPoke \/ LogRead \/ LogMerge

SpecLog == LogInit /\ [][LogNext]_vars

-----------------------------------------------------------------------------
(* Exporter::serializeMessages one file operation at a time: writeFile     *)
(* with no content, appendFile of the count, then for every message an     *)
(* appendFile of its size and an appendFile of its bytes.  The file can be *)
(* observed after each operation, and the process can stop between two.    *)

\* the file operations serializeMessages(fileName, msgs) performs
SerializeOps(msgs) == 2 + 2 * Len(msgs)

\* the content of the file after operation k of serializeMessages(msgs),
\* data being its content before that operation
SerializeStep(data, msgs, k) ==
    IF k = 1 THEN <<>>
    ELSE IF k = 2 THEN data \o BE32(Len(msgs))
    ELSE IF k % 2 = 1 THEN data \o BE32(Len(msgs[(k - 1) \div 2]))
    ELSE data \o msgs[(k - 2) \div 2]

\* lgOld is what the file holds (no file when lgOld was never written),
\* lgNew what serializeMessages is handed
WriteInit ==
    /\ env = MainEnv
    /\ shareDomain = TRUE
    /\ FilterQuiet
    /\ NameQuiet
    /\ lgOld \in LogFrags
    /\ lgNew \in LogFrags
    /\ lgFile \in {NoFile, File(SerializeMessages(lgOld))}
    /\ lgFile = NoFile => lgOld = <<>>
    /\ lgDamaged = FALSE
    /\ lgPokes = 0
    /\ lgOpts = {}
    /\ lgOp = "none"
    /\ lgOut = NoResult
    /\ lgStep = 0
    /\ pageSize = 1000
    /\ MainInitFor(MainBackup)

\* the next file operation of serializeMessages(fileName, lgNew)
WriteStep ==
    /\ lgOp \in {"none", "serialize"}
    /\ lgStep < SerializeOps(lgNew)
    /\ lgFile' = File(SerializeStep(lgFile.data, lgNew, lgStep + 1))
    /\ lgStep' = lgStep + 1
    /\ lgOp' = "serialize"
    /\ UNCHANGED <<env, shareDomain, nameVars, filterVars, mainVars, lgOld, lgDamaged,
                   lgPokes, lgNew, lgOpts, lgOut>>

\* the process stops between two file operations of serializeMessages
WriteInterrupt ==
    /\ lgOp = "serialize"
    /\ lgStep < SerializeOps(lgNew)
    /\ lgOp' = "interrupted"
    /\ UNCHANGED <<env, shareDomain, nameVars, filterVars, mainVars, lgOld, lgFile,
                   lgDamaged, lgPokes, lgNew, lgOpts, lgOut, lgStep>>

WriteNext == WriteStep \/ WriteInterrupt

SpecWrite == WriteInit /\ [][WriteNext]_vars

-----------------------------------------------------------------------------
(* Properties of the fragment log *)

\* the stream the format prescribes for F: count, then length and bytes of each
RECURSIVE Framing(_)
Framing(F) ==
    IF F = <<>> THEN <<>>
    ELSE BE32(Len(Head(F))) \o Head(F) \o Framing(Tail(F))

\* the entries that are completely present from offset on, at most left of them
RECURSIVE Readable(_, _, _)
Readable(data, offset, left) ==
    IF left = 0 \/ offset + 4 > Len(data) THEN <<>>
    ELSE LET w == ReadWord(data, offset)
         IN  IF WordGT(w, Len(data) - (offset + 4)) THEN <<>>
             ELSE <<SubSeq(data, offset + 5, offset + 4 + WordVal(w))>>
                  \o Readable(data, offset + 4 + WordVal(w), left - 1)

\* the longest prefix of fully readable entries of a file
ReadablePrefix(file) ==
    IF ~file.exists \/ Len(file.data) < 4 THEN <<>>
    ELSE LET count == ReadWord(file.data, 0)
         IN  Readable(file.data, 4,
                      IF WordGT(count, Len(file.data)) THEN Len(file.data)
                      ELSE WordVal(count))

\* the fragments the log held before mergeMessages
LogPrior == IF lgFile.exists THEN lgOld ELSE <<>>

\* C1: mergeMessages yields the prior fragments followed by the new ones in
\* ascending order and the new ones followed by the prior ones in descending
\* order, for every prior and every new sequence.
C1_MergeOrder ==
    (lgOp = "merge" /\ ~lgDamaged) =>
        /\ lgOut.outcome = "ok"
        /\ lgOut.messages = IF "DESC" \in lgOpts THEN lgNew \o LogPrior
                            ELSE LogPrior \o lgNew

\* C2: unserializeMessages returns exactly the sequence serializeMessages
\* wrote, and the stream written is the big-endian count followed by the
\* framed entries.
C2_RoundTrip ==
    (lgOp = "unserialize" /\ lgFile.exists /\ ~lgDamaged) =>
        /\ lgFile.data = BE32(Len(lgOld)) \o Framing(lgOld)
        /\ lgOut.outcome = "ok"
        /\ lgOut.messages = lgOld

\* C3: for every content of the file unserializeMessages returns the longest
\* prefix of fully readable entries, signals no error and reads no byte at or
\* beyond the end of the file.
C3_ReadTotal ==
    lgOp = "unserialize" =>
        /\ lgOut.outcome = "ok"
        /\ lgOut.messages = ReadablePrefix(lgFile)
        /\ ~lgOut.oob

\* the same three statements on a build with unchecked operator[] and a host
\* that grants every allocation
LogHoldsUnchecked ==
    (~env.checked /\ ~env.lowMem) => C1_MergeOrder /\ C2_RoundTrip /\ C3_ReadTotal

\* what is left of the three statements when the read aborts: nothing else
\* goes wrong
LogOnlyAborts ==
    /\ lgOp = "unserialize" /\ lgOut.outcome = "ok" =>
            lgOut.messages = ReadablePrefix(lgFile) /\ ~lgOut.oob
    /\ lgOp = "unserialize" /\ lgOut.outcome = "abort" => env.checked
    /\ lgOp = "unserialize" /\ lgOut.outcome = "bad_alloc" => env.lowMem

-----------------------------------------------------------------------------
(* Properties of the passes *)

\* the mark the persisted context holds for a conversation, 0 when it has none
PersistedMark(c) == IF c \in DOMAIN ctxFile.marks THEN ctxFile.marks[c] ELSE 0

\* the mark the context in memory holds for a conversation, 0 when it has none
HeldMark(c) ==
    IF c \in DOMAIN m_exportContext.marks THEN m_exportContext.marks[c] ELSE 0

\* C4: while the records of a conversation are enumerated, the threshold the
\* enumerator was opened with is the mark the export context holds for the
\* conversation (0 when it holds none), and every fragment rendered so far
\* is of a record above that mark.
C4_Threshold ==
    pc \in {"records", "flush"} =>
        /\ enumMin = HeldMark(CurSession.name)
        /\ \A i \in 1..Len(messages) : IdOf(messages[i]) > HeldMark(CurSession.name)

\* a conversation is enumerated above a mark a previous pass left behind
C4_Witness ==
    /\ pc = "records" /\ passNo = 2
    /\ enumMin > 0 /\ messages # <<>>

\* the fragments a merge of prior and new ones holds under the options
Merged(prior, new, options) ==
    IF "DESC" \in options THEN new \o prior ELSE prior \o new

\* the fragments in the log of a conversation
LogOf(key) == UnserializeMessages(env, logFile[key], <<>>).messages

\* a pass has ended whose enumeration of a conversation was cut short
CutPassEnded == pc = "done" /\ cut.set

\* C5 as stated: a pass cancelled after k of n eligible records of a
\* conversation ends with the prior fragments merged with the k new ones in
\* the log, the mark at the identifier of the k-th record, the context
\* persisted and the pass reported as cancelled.
C5_CancelKeepsProgress ==
    CutPassEnded =>
        /\ LogOf(cut.key) = Merged(cut.prior, cut.new, cut.options)
        /\ Len(cut.new) = cut.k
        /\ ctxFile.exists /\ PersistedMark(cut.key[2]) = cut.lastId
        /\ report = [event |-> "complete", cancelled |-> TRUE]

\* C5 amended: the prior fragments are merged in only by an incremental
\* pass; a pass that is not incremental leaves exactly the k new fragments.
C5_CancelKeepsProgressAmended ==
    CutPassEnded =>
        /\ LogOf(cut.key) = IF "INCR" \in cut.options
                            THEN Merged(cut.prior, cut.new, cut.options)
                            ELSE cut.new
        /\ Len(cut.new) = cut.k
        /\ ctxFile.exists /\ PersistedMark(cut.key[2]) = cut.lastId
        /\ report = [event |-> "complete", cancelled |-> TRUE]

\* an incremental pass over a log that holds fragments was cut short
C5_Witness ==
    CutPassEnded /\ "INCR" \in cut.options /\ cut.prior # <<>> /\ cut.k >= 1

\* C6: no step lowers or drops the mark the persisted context holds for a
\* conversation.
C6_MarkMonotonic ==
    [][\A c \in DOMAIN ctxFile.marks : PersistedMark(c)' >= PersistedMark(c)]_vars

\* a second complete pass has ended with the configuration of the first,
\* itself complete, both incremental
SecondPassEnded ==
    /\ pc = "done" /\ prev.set /\ prev.complete
    /\ ~passStat.failed /\ ~report.cancelled
    /\ prev.filter = m_usersAndSessionsFilter
    /\ prev.options = passStat.options /\ "INCR" \in passStat.options

\* C7: a second pass over the unchanged backup and conversation set
\* enumerates no record, leaves every mark as it was and leaves the rendered
\* output as the first pass left it.
C7_Idempotent ==
    SecondPassEnded =>
        /\ passStat.enumerated = 0
        /\ ctxFile.marks = prev.marks
        /\ Rendered = prev.docs

\* the part of C7 that holds of the same passes: nothing is enumerated, no
\* mark and no conversation document or data chunk changes
SecondPassKeepsLogs ==
    SecondPassEnded =>
        /\ passStat.enumerated = 0
        /\ ctxFile.marks = prev.marks
        /\ <<sessionDoc, chunkFile>> = <<prev.docs[1], prev.docs[2]>>

\* C10: never more than one worker runs, and a call of run() that finds a
\* worker running returns false and changes nothing of the instance, the
\* worker or the output directory.
C10_SinglePass ==
    /\ [](liveWorkers <= 1)
    /\ [][(lastRun' # lastRun /\ liveWorkers > 0) =>
              /\ lastRun'.result = "false"
              /\ UNCHANGED <<diskVars, instVars, workVars, liveWorkers, report,
                             passNo>>]_vars

\* run() was called while the worker was among the records and returned false
C10_Witness ==
    /\ lastRun = [result |-> "false", busy |-> TRUE]
    /\ liveWorkers = 1 /\ pc = "records"

\* the conversation of ScenarioBackup
ScenarioKey == <<"u1", "a">>

\* a pass that found no persisted marks has ended / a pass that found some
FirstRunEnded == pc = "done" /\ ~passStat.failed /\ prev.marks = EmptyMarks
LaterRunEnded == pc = "done" /\ ~passStat.failed /\ prev.marks # EmptyMarks

\* C8 as stated: the first pass over the 1500 records leaves one shell
\* document and two data chunks of 1000 and 500 fragments and the mark at
\* 1500; a later incremental pass writes no data chunk and leaves the mark.
C8_Scenario ==
    /\ FirstRunEnded =>
          /\ sessionDoc[ScenarioKey].exists /\ passStat.docWrites = 1
          /\ Len(chunkFile[ScenarioKey]) = 2
          /\ Len(chunkFile[ScenarioKey][1]) = 1000
          /\ Len(chunkFile[ScenarioKey][2]) = 500
          /\ PersistedMark("a") = 1500
    /\ (LaterRunEnded /\ "INCR" \in passStat.options) =>
          /\ passStat.chunkWrites = 0
          /\ PersistedMark("a") = prev.marks["a"]

\* C8 amended: the first pass leaves one shell document holding the first
\* 1000 fragments and announcing one page, and one data chunk of the other
\* 500, and the mark at 1500; a later incremental pass writes neither
\* document nor chunk, a later pass that is not incremental writes both
\* again with the same content, and both leave the mark at 1500.
C8_ScenarioAmended ==
    /\ FirstRunEnded =>
          /\ sessionDoc[ScenarioKey].exists /\ passStat.docWrites = 1
          /\ Len(sessionDoc[ScenarioKey].body) = 1000
          /\ sessionDoc[ScenarioKey].numberOfMsgs = 500
          /\ sessionDoc[ScenarioKey].numberOfPages = 1
          /\ passStat.chunkWrites = 1
          /\ Len(chunkFile[ScenarioKey]) = 1
          /\ Len(chunkFile[ScenarioKey][1]) = 500
          /\ sessionDoc[ScenarioKey].body \o chunkFile[ScenarioKey][1]
                = [i \in 1..1500 |-> Render(i)]
          /\ PersistedMark("a") = 1500
    /\ LaterRunEnded =>
          /\ passStat.docWrites = passStat.chunkWrites
          /\ passStat.chunkWrites = IF "INCR" \in passStat.options THEN 0 ELSE 1
          /\ <<sessionDoc, chunkFile>> = <<prev.docs[1], prev.docs[2]>>
          /\ PersistedMark("a") = 1500 /\ prev.marks["a"] = 1500

\* an incremental pass has ended on the output of a complete first pass
C8_Witness ==
    /\ LaterRunEnded /\ "INCR" \in passStat.options
    /\ passNo = 2 /\ passStat.enumerated = 0
    /\ Len(chunkFile[ScenarioKey]) = 1

\* the smallest number of pages of size b that hold a fragments
CeilDiv(a, b) == IF a % b = 0 THEN a \div b ELSE a \div b + 1

\* the fragments of the chunks lo..hi of a conversation, in order
RECURSIVE ChunkConcat(_, _, _)
ChunkConcat(chunks, lo, hi) ==
    IF lo > hi THEN <<>> ELSE chunks[lo] \o ChunkConcat(chunks, lo + 1, hi)

\* exportSession has paginated the fragments of the conversation
Paginated == pc = "sessionDone" /\ passStat.docWrites = 1

\* C9: with text mode or synchronous loading set, or no more fragments than
\* a page holds, all fragments are inline and no data chunk is written;
\* otherwise the first page is inline and the rest fills ceil((n-P)/P)
\* chunks, each of P fragments but the last, which holds 1..P.  Inline part
\* and chunks concatenated are the merged fragments, and the page count in
\* the shell document is the number of chunks written.
C9_Pagination ==
    Paginated =>
        LET n == Len(messages)
            doc == sessionDoc[CurKey]
            chunks == chunkFile[CurKey]
            written == passStat.chunkWrites
        IN  /\ n >= 1 /\ doc.exists
            /\ IF m_options \cap {"TEXT", "SYNC"} # {} \/ n <= pageSize
               THEN doc.body = messages /\ written = 0
               ELSE /\ doc.body = SubSeq(messages, 1, pageSize)
                    /\ written = CeilDiv(n - pageSize, pageSize)
                    /\ \A i \in 1..(written - 1) : Len(chunks[i]) = pageSize
                    /\ Len(chunks[written]) \in 1..pageSize
            /\ Len(chunks) = written
            /\ doc.body \o ChunkConcat(chunks, 1, written) = messages
            /\ doc.numberOfPages = written

\* fragments were split over the shell document and more than one data chunk,
\* the last of them not full
C9_Witness ==
    /\ Paginated /\ passStat.chunkWrites >= 2
    /\ Len(chunkFile[CurKey][passStat.chunkWrites]) < pageSize


-----------------------------------------------------------------------------
(* The steps of a conversation and of a pass *)

\* the identifiers the enumerator has yielded so far
Yielded == {r \in CurSession.recs : enumMin < r /\ r <= enumLast}

\* the fragments of a set of records in ascending order of identifier
RECURSIVE FragmentsOf(_)
FragmentsOf(S) ==
    IF S = {} THEN <<>>
    ELSE LET top == CHOOSE r \in S : \A q \in S : q <= r
         IN  Append(FragmentsOf(S \ {top}), Render(top))

\* C11: cancel() takes effect between records only: whenever it is called,
\* every record the enumerator has yielded is rendered whole, its fragment
\* is among the fragments of the conversation, it is counted, and its
\* identifier is covered by maxMsgId, which setMaxId then hands to the
\* context as the mark of the conversation.
C11_RecordBoundary ==
    /\ pc \in {"records", "flush", "merge"} =>
          /\ messages = FragmentsOf(Yielded)
          /\ numberOfMsgs = Cardinality(Yielded)
          /\ maxMsgId >= enumLast
    /\ pc = "merge" /\ Yielded # {} =>
          /\ HeldMark(CurSession.name) = maxMsgId
          /\ \A r \in Yielded : r <= HeldMark(CurSession.name)

\* cancel() was called while records were left, and the enumeration stopped
\* after the record in hand
C11_Witness ==
    /\ m_cancelled /\ pc = "merge"
    /\ cut.set /\ cut.key = CurKey
    /\ Pending(CurSession.recs, enumLast) # {}
    /\ Len(messages) = cut.k /\ cut.k >= 1

\* nothing of the state folder or of the rendered output exists
NothingWritten ==
    /\ ~stateDir /\ ~ctxFile.exists /\ ~topIndex.exists
    /\ \A k \in ConvKeys(backup) :
          ~logFile[k].exists /\ ~sessionDoc[k].exists /\ chunkFile[k] = <<>>
    /\ \A u \in UserNames(backup) : ~userIndex[u].exists

C13_PoolDrainedBeforeComplete ==
    (pc \in {"users", "finish", "done"} \/ report.event = "complete") => taskQueue = 0

\* a pass that handed a task to the pool was cancelled and has been
\* reported complete
C13_Witness ==
    /\ pc = "done" /\ report = [event |-> "complete", cancelled |-> TRUE]
    /\ passStat.enumerated >= 2 /\ <<"u1", "a">> \in passStat.logged
    /\ userIndex["u1"].exists

\* C14: no task handed to the pool for a conversation is outstanding when
\* exportSession has written the document and the pages of the conversation
\* and exportUser is about to report the conversation complete.
C14_PoolDrainedBeforePages ==
    (pc = "sessionDone" /\ si = 1 /\ CurKey \in passStat.written) => taskQueue = 0

\* the worker changes the marks of the context while it is in a conversation
MarkStep ==
    /\ pc \in {"sessions", "records", "flush", "merge", "sessionDone"}
    /\ m_exportContext'.marks # m_exportContext.marks

\* the worker writes the log of the conversation
LogStep == pc = "merge" /\ pc' = "sessionDone"

\* C15 as stated: the mark of a conversation is advanced in the context only
\* after the merged log of the conversation was written in this pass, and
\* the context file is written only after the loop over the accounts.
C15_StepOrder ==
    /\ [][MarkStep => CurKey \in passStat.logged]_vars
    /\ [][ctxFile' # ctxFile => pc = "finish" /\ pc' = "done"]_vars

\* C15 amended: the mark is advanced in the context in memory right after
\* the loop over the records, with every yielded record rendered and before
\* the log is merged and written; the log is written with the mark already
\* advanced, the document is paginated in the same call from the fragments
\* the log now holds; the context file is written only after the loop over
\* the accounts, when the log of every conversation of the pass is written.
C15_StepOrderAmended ==
    /\ [][MarkStep =>
            /\ pc = "flush" /\ pc' = "merge"
            /\ messages = FragmentsOf(Yielded)
            /\ CurKey \notin passStat.logged /\ logFile' = logFile
            /\ HeldMark(CurSession.name)' = maxMsgId]_vars
    /\ [][LogStep =>
            /\ maxMsgId > 0 => HeldMark(CurSession.name) = maxMsgId
            /\ m_exportContext' = m_exportContext
            /\ passStat'.logged = passStat.logged \cup {CurKey}
            /\ sessionDoc' # sessionDoc =>
                  Len(sessionDoc'[CurKey].body) + sessionDoc'[CurKey].numberOfMsgs
                      = Len(messages')]_vars
    /\ [](pc = "sessionDone" /\ CurKey \in passStat.logged =>
            LogOf(CurKey) = messages)
    /\ [][ctxFile' # ctxFile =>
            /\ pc = "finish" /\ pc' = "done"
            /\ \A c \in DOMAIN ctxFile'.marks :
                  ctxFile'.marks[c] = m_exportContext.marks[c]]_vars

\* the mark of the conversation is advanced and its log is not yet written
C15_Witness ==
    /\ pc = "merge" /\ maxMsgId > enumMin
    /\ HeldMark(CurSession.name) = maxMsgId
    /\ CurKey \notin passStat.logged
    /\ LogOf(CurKey) # messages

\* the worker is in a conversation that has no record to export: its store
\* is empty, or the mark it was opened with is at or above every record
ZeroEligible ==
    /\ pc \in {"records", "flush", "merge", "sessionDone"}
    /\ \/ CurSession.dbEmpty
       \/ ~CurSession.sub /\ \A r \in CurSession.recs : r <= enumMin

RecsOf(key) ==
    LET i == CHOOSE i \in DOMAIN backup : backup[i].name = key[1]
        j == CHOOSE j \in DOMAIN backup[i].sessions :
                 backup[i].sessions[j].name = key[2]
    IN  backup[i].sessions[j].recs

\* the conversations whose persisted state the damage made unusable
Unusable ==
    IF prev.damage.kind \in ContextDamages THEN ConvKeys(backup)
    ELSE IF prev.damage.kind \in LogDamages THEN {prev.damage.key}
    ELSE {}

\* C17: an incremental pass over a state folder whose context file is
\* missing, malformed or without entries, or in which the fragment log of a
\* conversation is missing or cut, does not fail, and ends with the log and
\* the document of every conversation so affected holding one fragment per
\* record of the conversation, in order, none missing and none twice.
C17_StartFresh ==
    /\ prev.damage # NoDamage => pc # "crashed"
    /\ (pc = "done" /\ ~passStat.failed /\ "INCR" \in passStat.options) =>
          \A k \in Unusable :
              /\ LogOf(k) = FragmentsOf(RecsOf(k))
              /\ sessionDoc[k].exists
              /\ sessionDoc[k].body = FragmentsOf(RecsOf(k))

\* a pass that loaded the backup has ended
PassEnded == pc = "done" /\ ~passStat.failed

\* the context file was written by the pass that has just ended
PersistedNow == ctxFile.exists /\ ctxFile.time = passNo

\* C18 as stated: a pass writes the context file at its end if and only if
\* exportSession went through the records of at least one conversation in
\* it; otherwise the file is left as it was.
C18_PersistIffProcessed ==
    PassEnded => (PersistedNow <=> passStat.sessions > 0)

\* C18 amended: a pass writes the context file at its end, with the marks
\* the context in memory holds and the time of the pass, if and only if it
\* rendered at least one record or took over the previous context at its
\* start; otherwise the step that ends the pass leaves the file as it was.
C18_PersistIffEntries ==
    /\ [](PassEnded =>
            (PersistedNow <=> passStat.enumerated > 0 \/ passStat.loadedContext))
    /\ [][pc = "finish" /\ pc' = "done" =>
            IF passStat.enumerated > 0 \/ passStat.loadedContext
            THEN /\ ctxFile'.exists
                 /\ ctxFile'.marks = m_exportContext.marks
                 /\ ctxFile'.options = m_exportContext.options
                 /\ ctxFile'.time = passNo
            ELSE ctxFile' = ctxFile]_vars

\* an incremental second pass took over the context of the first, was
\* cancelled before it came to any conversation, and wrote the context file
C18_Witness ==
    /\ PassEnded /\ passNo = 2 /\ report.cancelled
    /\ passStat.loadedContext /\ passStat.sessions = 0 /\ passStat.enumerated = 0
    /\ PersistedNow /\ ctxFile.marks = prev.marks

\* a context file that holds what a pass persisted: at least one entry
Usable(file) == file.exists /\ ~file.bad /\ file.marks # EmptyMarks

\* an incremental pass has just been through the loading of the context
JustLoaded ==
    /\ pc = "users" /\ ui = 1 /\ htmlBody = <<>>
    /\ "INCR" \in orgOptions

-----------------------------------------------------------------------------
(* SpecFilter: ITunesDb::filter applied to drawn catalogs and prefixes. The *)
(* filter classes are not among the sources: a filter is modelled, from    *)
(* the specification, as a prefix that compares with a path by the first   *)
(* characters of the path and matches the paths that begin with it.        *)

MaxFiles == 4
MaxPathLen == 2
Letters == {1, 2}

\* the logical paths
Paths == SeqsUpTo(Letters, MaxPathLen)

\* std::string operator<
Less(a, b) ==
    \E i \in 1..Len(b) :
        /\ \A j \in 1..(i - 1) : j <= Len(a) /\ a[j] = b[j]
        /\ IF i > Len(a) THEN TRUE ELSE a[i] < b[i]

\* the files of a set of paths sorted by path, as load() leaves m_files
RECURSIVE CatalogOf(_)
CatalogOf(S) ==
    IF S = {} THEN <<>>
    ELSE LET top == CHOOSE a \in S : \A b \in S : ~Less(a, b)
         IN  Append(CatalogOf(S \ {top}), top)

Catalogs == {CatalogOf(S) : S \in {T \in SUBSET Paths : Cardinality(T) <= MaxFiles}}

\* the first characters of a path, as many as the prefix has
Leading(path, prefix) ==
    SubSeq(path, 1, IF Len(prefix) < Len(path) THEN Len(prefix) ELSE Len(path))

\* f(file, f), f(f, file) and f == file of a prefix filter
FileBeforeFilter(path, prefix) == Less(Leading(path, prefix), prefix)
FilterBeforeFile(prefix, path) == Less(prefix, Leading(path, prefix))
FilterMatches(prefix, path) == Leading(path, prefix) = prefix

\* std::lower_bound over the count files from position first on
RECURSIVE LowerBound(_, _, _, _)
LowerBound(files, prefix, first, count) ==
    IF count = 0 THEN first
    ELSE LET step == count \div 2
             mid == first + step
         IN  IF FileBeforeFilter(files[mid], prefix)
             THEN LowerBound(files, prefix, mid + 1, count - step - 1)
             ELSE LowerBound(files, prefix, first, step)

\* std::upper_bound over the count files from position first on
RECURSIVE UpperBound(_, _, _, _)
UpperBound(files, prefix, first, count) ==
    IF count = 0 THEN first
    ELSE LET step == count \div 2
             mid == first + step
         IN  IF ~FilterBeforeFile(prefix, files[mid])
             THEN UpperBound(files, prefix, mid + 1, count - step - 1)
             ELSE UpperBound(files, prefix, first, step)

\* a range of at most one file
EqualRangeOne(files, prefix) ==
    LET lo == LowerBound(files, prefix, 1, Len(files))
        hi == UpperBound(files, prefix, 1, Len(files))
    IN  [first |-> lo, second |-> IF lo < hi THEN lo + 1 ELSE lo]

\* std::equal_range(m_files.cbegin(), m_files.cend(), f, f)
EqualRange(files, prefix) ==
    [first |-> LowerBound(files, prefix, 1, Len(files)),
     second |-> UpperBound(files, prefix, 1, Len(files))]

\* the files of the positions first .. second - 1 that the filter matches
RECURSIVE MatchesIn(_, _, _, _)
MatchesIn(files, prefix, first, second) ==
    IF first >= second THEN <<>>
    ELSE LET rest == MatchesIn(files, prefix, first + 1, second)
         IN  IF FilterMatches(prefix, files[first]) THEN <<files[first]>> \o rest
             ELSE rest

\* ITunesDb::filter
Filter(files, prefix) ==
    LET range == EqualRange(files, prefix)
    IN  IF range.first # range.second
        THEN MatchesIn(files, prefix, range.first, range.second)
        ELSE <<>>

FilterInit ==
    /\ env = MainEnv
    /\ shareDomain = TRUE
    /\ m_files \in Catalogs
    /\ ftPrefix \in Paths
    /\ ftOp = "none" /\ ftOut = <<>>
    /\ NameQuiet
    /\ LogQuiet
    /\ pageSize = 1000
    /\ MainInitFor(MainBackup)

\* a call of filter(f)
FilterCall ==
    /\ ftOp = "none"
    /\ ftOp' = "filter"
    /\ ftOut' = Filter(m_files, ftPrefix)
    /\ UNCHANGED <<env, shareDomain, nameVars, m_files, ftPrefix, logVars, mainVars>>

SpecFilter == FilterInit /\ [][FilterCall]_vars

\* the files a walk over the whole catalog finds to begin with the prefix
LinearScan(files, prefix) ==
    SelectSeq(files, LAMBDA path : Len(path) >= Len(prefix)
                                   /\ SubSeq(path, 1, Len(prefix)) = prefix)

\* C20: over a catalog sorted by path, filter called with a prefix returns
\* exactly the files whose path begins with the prefix, in the order of the
\* catalog, as a walk over the whole catalog finds them, and nothing if no
\* path begins with the prefix.
C20_RangeQuery ==
    ftOp = "filter" => ftOut = LinearScan(m_files, ftPrefix)

\* filter has returned two files from the middle of the catalog
C20_Witness ==
    /\ ftOp = "filter" /\ Len(ftOut) = 2 /\ Len(m_files) = 4
    /\ ftOut = SubSeq(m_files, 2, 3)

-----------------------------------------------------------------------------
(* Properties of the step-by-step rewrite of the fragment log *)

\* the file holds the complete stream of F
Holds(F) == lgFile.exists /\ lgFile.data = SerializeMessages(F)

\* the count prefix of the file equals the number of entries that follow it
CountMatchesEntries ==
    /\ Len(lgFile.data) >= 4
    /\ \E n \in 0..MaxFrags :
          /\ ReadWord(lgFile.data, 0) = [hi |-> 0, lo |-> n]
          /\ \E F \in LogFrags : Len(F) = n /\ lgFile.data = SerializeMessages(F)

\* C21: at every point at which the fragment log can be observed, after each
\* file operation of serializeMessages and after an interruption between two
\* of them, its count prefix equals the number of entries that follow and
\* it holds either the complete old content or the complete new content.
C21_AtomicRewrite ==
    lgFile.exists => CountMatchesEntries /\ (Holds(lgOld) \/ Holds(lgNew))

\* the rewrite, once all its operations are done, leaves the new content
C21_CompleteRewrite ==
    lgStep = SerializeOps(lgNew) => Holds(lgNew)


-----------------------------------------------------------------------------
(* Properties of the catalog *)

\* the worker has loaded the catalog and the pass is not reported complete
CatalogInUse ==
    pc \in {"users", "sessions", "records", "flush", "merge", "sessionDone",
            "userTail", "taskWait", "tasksEnd", "finish"}

\* C22: from the moment the worker has loaded the catalog until the pass is
\* reported complete, the catalog the worker reads is the one it built: no
\* operation, loadUsersAndSessions from the control thread included, has
\* released or replaced it.
C22_CatalogReadOnly ==
    CatalogInUse => m_iTunesDb.live /\ m_iTunesDb.gen = passStat.catalog

\* passes that run without a call of loadUsersAndSessions keep their catalog
C22_CatalogKeptByPasses ==
    [][~LoadUsersAndSessions => (CatalogInUse /\ CatalogInUse' => m_iTunesDb' = m_iTunesDb)]_vars


-----------------------------------------------------------------------------
(* Properties of the content of the fragment log *)

\* C23: the step of exportSession that writes the fragment log of a
\* conversation replaces it, in a pass without the incremental option, by
\* exactly the fragments rendered in this pass in production order whatever
\* it held before, and in an incremental pass by the merge of what it held
\* with the fragments rendered in this pass.
C23_LogReplaced ==
    [][LogStep =>
          LET rendered == FragmentsOf(Yielded)
              prior == LogOf(CurKey)
          IN  /\ messages = rendered
              /\ logFile'[CurKey] =
                     File(SerializeMessages(
                              IF "INCR" \in m_options
                              THEN Merged(prior, rendered, m_options)
                              ELSE rendered))]_vars

\* a second pass without the incremental option has rewritten the log of a
\* conversation whose log and document the first pass had written
C23_Witness ==
    /\ pc = "sessionDone" /\ passNo = 2 /\ "INCR" \notin m_options
    /\ CurKey \in passStat.logged
    /\ prev.set /\ prev.docs[1][CurKey].exists
    /\ messages # <<>> /\ LogOf(CurKey) = messages


-----------------------------------------------------------------------------
(* SpecName: Exporter::buildFileNameForUser called again and again on one  *)
(* set of used names, as runImpl does for the accounts and exportUser for  *)
(* the conversations of an account.  A name is a sequence of characters;   *)
(* "/" stands for the characters removeInvalidCharsForFileName removes.    *)

Digits == <<"0", "1", "2", "3", "4", "5", "6", "7", "8", "9">>

\* std::to_string(n) for n >= 0
RECURSIVE to_string(_)
to_string(n) ==
    IF n < 10 THEN <<Digits[n + 1]>>
    ELSE Append(to_string(n \div 10), Digits[(n % 10) + 1])

\* removeInvalidCharsForFileName
RemoveInvalidCharsForFileName(name) == SelectSeq(name, LAMBDA c : c # "/")

\* isValidFileName
IsValidFileName(name) == name # <<>>

\* outputFileName + "_" + std::to_string(idx)
Suffixed(name, idx) == name \o <<"_">> \o to_string(idx)

\* the suffix search that takes "_2" whatever the set holds
SuffixSearchBlind(name, existing) == 2

\* int idx = 1; while (idx++) ...: the first idx from 2 on whose suffixed
\* name the set does not hold; a set of n names leaves one of n + 1 free
SuffixSearch(name, existing) ==
    CHOOSE idx \in 2..(Cardinality(existing) + 2) :
        /\ Suffixed(name, idx) \notin existing
        /\ \A j \in 2..(idx - 1) : Suffixed(name, j) \in existing

\* the loop of buildFileNameForUser from candidate idx on
RECURSIVE TryNames(_, _, _)
TryNames(names, existing, idx) ==
    IF idx > 3 THEN [succeeded |-> FALSE, outputFileName |-> <<>>,
                     existingFileNames |-> existing]
    ELSE LET outputFileName == RemoveInvalidCharsForFileName(names[idx])
         IN  IF IsValidFileName(outputFileName)
             THEN LET chosen == IF outputFileName \in existing
                                THEN Suffixed(outputFileName,
                                              SuffixSearch(outputFileName, existing))
                                ELSE outputFileName
                  IN  [succeeded |-> TRUE, outputFileName |-> chosen,
                       existingFileNames |-> existing \cup {chosen}]
             ELSE TryNames(names, existing, idx + 1)

\* Exporter::buildFileNameForUser(user, existingFileNames)
BuildFileNameForUser(names, existing) == TryNames(names, existing, 1)

\* display names and user names: none, only removed characters, plain, with
\* a removed character, and one that reads like a suffixed name
NameSample == { <<>>, <<"/">>, <<"a">>, <<"a", "/">>, <<"a", "_", "2">> }
HashSample == { <<>>, <<"h">> }

NameInit ==
    /\ env = MainEnv
    /\ shareDomain = TRUE
    /\ FilterQuiet
    /\ NameQuiet
    /\ LogQuiet
    /\ pageSize = 1000
    /\ MainInitFor(MainBackup)

\* a call of buildFileNameForUser for the next Friend
NameCall ==
    /\ Len(nmAssigned) < MaxNames
    /\ \E display \in NameSample, usr \in NameSample, hash \in HashSample :
          LET out == BuildFileNameForUser(<<display, usr, hash>>, nmExisting)
          IN  /\ nmNames' = <<display, usr, hash>>
              /\ nmExisting' = out.existingFileNames
              /\ nmOut' = [succeeded |-> out.succeeded,
                           outputFileName |-> out.outputFileName]
              /\ nmAssigned' = IF out.succeeded
                               THEN Append(nmAssigned, out.outputFileName)
                               ELSE nmAssigned
    /\ UNCHANGED <<env, shareDomain, filterVars, logVars, mainVars>>

SpecName == NameInit /\ [][NameCall]_vars

\* the position of the first candidate that is valid once cleaned, 0 if none
FirstValid(names) ==
    LET V == {i \in 1..3 : IsValidFileName(RemoveInvalidCharsForFileName(names[i]))}
    IN  IF V = {} THEN 0 ELSE CHOOSE i \in V : \A j \in V : i <= j

\* what a call that found old and left new did, for candidates names
NamedAsPromised(names, old, new, out) ==
    IF FirstValid(names) = 0
    THEN ~out.succeeded /\ new = old
    ELSE LET base == RemoveInvalidCharsForFileName(names[FirstValid(names)])
             chosen == out.outputFileName
         IN  /\ out.succeeded
             /\ base \notin old => chosen = base
             /\ base \in old =>
                   \E n \in 2..(Cardinality(old) + 2) :
                      /\ chosen = Suffixed(base, n)
                      /\ \A m \in 2..(n - 1) : Suffixed(base, m) \in old
             /\ chosen \notin old
             /\ new = old \cup {chosen}

\* C24: buildFileNameForUser tries display name, user name and hash in that
\* order and takes the first that is valid; if it is used already it
\* appends the first free numeric suffix; on success the chosen name was not
\* in the set before and the set afterwards is the old one plus exactly that
\* name, on failure the set is unchanged; so the names assigned from one
\* set are pairwise distinct.
C24_OutputNaming ==
    /\ [](\A i, j \in DOMAIN nmAssigned : i # j => nmAssigned[i] # nmAssigned[j])
    /\ [][NamedAsPromised(nmNames', nmExisting, nmExisting', nmOut')]_vars

\* the third call for the same name: "a" and "a_2" are used, "a_3" is chosen
C24_Witness ==
    /\ nmAssigned = << <<"a">>, <<"a", "_", "2">>, <<"a", "_", "3">> >>
    /\ nmNames[1] = <<"a">>
    /\ nmOut.succeeded /\ nmOut.outputFileName = <<"a", "_", "3">>


-----------------------------------------------------------------------------
(* Properties of the notifications *)

\* the worker is inside a pass it has announced and not yet reported complete
PassOpen ==
    pc \in {"load", "users", "sessions", "records", "flush", "merge",
            "sessionDone", "userTail", "taskWait", "tasksEnd", "finish"}

\* notification b may come directly after notification a in a well nested
\* trace; a.closed holds the accounts whose tasks-complete came before b
Follows(a, b) ==
    CASE b.event = "start" -> a.event \in {"none", "complete"}
      [] b.event = "complete" -> a.event \in {"start", "tasksComplete"}
      [] b.event \in {"sessionStart", "tasksStart"} ->
            /\ b.key[1] \notin a.closed
            /\ \/ a.event \in {"start", "tasksComplete"}
               \/ a.event = "sessionComplete" /\ a.key[1] = b.key[1]
      [] b.event = "sessionProgress" ->
            /\ a.key = b.key
            /\ \/ a.event = "sessionStart" /\ b.count > 0
               \/ a.event = "sessionProgress" /\ b.count > a.count
      [] b.event = "sessionComplete" ->
            a.key = b.key /\ a.event \in {"sessionStart", "sessionProgress"}
      [] b.event \in {"tasksProgress", "tasksComplete"} ->
            a.key = b.key /\ a.event \in {"tasksStart", "tasksProgress"}
      [] OTHER -> FALSE

\* C25: the notifications of every started pass, failed and cancelled ones
\* included, are well nested: one pass-start comes first and one
\* pass-complete last; a conversation-start is followed by one
\* conversation-complete of the same conversation before the next
\* conversation-start, with conversation-progress only between them and
\* with a strictly increasing count; for each processed account one
\* tasks-start precedes its tasks-progress and its one tasks-complete, all
\* after the conversations of that account.
C25_WellNested ==
    /\ [](PassOpen => notified.event \notin {"none", "complete"})
    /\ [](pc = "done" => notified.event = "complete")
    /\ [][notified' # notified => Follows(notified, notified')]_vars

\* a cancelled pass has ended after it rendered records, waited for the
\* tasks of the first account and reported the pass complete
C25_Witness ==
    /\ pc = "done" /\ report.cancelled /\ notified.event = "complete"
    /\ "u1" \in notified.closed /\ passStat.enumerated > 0
    /\ passNo = 2 /\ prev.set /\ ~prev.complete


-----------------------------------------------------------------------------
(* Properties of the marks across accounts *)

\* C26: the marks of different accounts do not interfere: the threshold a
\* conversation is enumerated from is 0 or the identifier of one of its own
\* records, whatever was processed for another account under the same
\* conversation identifier, and the first pass that processes a conversation
\* renders every record of it.
C26_AccountsIndependent ==
    /\ pc = "records" => enumMin \in CurSession.recs \cup {0}
    /\ pc = "flush" /\ passNo = 1 /\ ~m_cancelled => Yielded = CurSession.recs


-----------------------------------------------------------------------------
(* Properties of log and mark together *)

\* the log of a conversation holds one fragment for each of its records at
\* or below the persisted mark of the conversation, and nothing else
LogMatchesMark(key) ==
    LET log == LogOf(key)
        below == {r \in RecsOf(key) : r <= PersistedMark(key[2])}
    IN  /\ Len(log) = Cardinality(below)
        /\ {IdOf(log[i]) : i \in 1..Len(log)} = below

\* C27: after each pass on the output directory, incremental or not, with
\* or without a filter, completed or cancelled, the fragment log of every
\* conversation holds exactly one fragment for each record whose identifier
\* is at or below the persisted mark of the conversation.
C27_LogMarkConsistent ==
    PassEnded => \A key \in ConvKeys(backup) : LogMatchesMark(key)


-----------------------------------------------------------------------------
(* Properties of the control surface after a pass *)

\* the worker has returned from runImpl and waitForComplition has joined it
Joined == pc = "done" /\ thread = "none"

\* C28: isRunning() is true exactly while a pass is active: it is true
\* while the worker runs, and once the worker has ended and
\* waitForComplition() has returned it is false, so that run() on the same
\* instance is not turned away as busy.
C28_RunningWhileActive ==
    /\ thread = "running" => m_running
    /\ Joined => ~m_running /\ ~RunBusy


\* C29: waitForComplition() is safe in every state of the instance: it
\* returns at once when no pass was ever started, it returns only after the
\* worker has ended when a pass was started, and a call after it has
\* returned does not join a thread that is no longer joinable.
C29_WaitSafe ==
    /\ [](lastWait # "threw")
    /\ [][lastWait' # lastWait /\ lastWait' # "none" =>
             \/ lastWait' = "returned" /\ ~m_running /\ pc = "idle"
             \/ lastWait' = "joined" /\ pc = "done" /\ thread = "finished"]_vars


-----------------------------------------------------------------------------
(* Properties of a cancel() that precedes run() *)

\* a pass has ended that was started with the cancel flag already set
PrecancelledEnded == pc = "done" /\ passStat.precancelled

\* such a pass has processed no account and no conversation
NothingProcessed ==
    /\ passStat.sessions = 0 /\ passStat.enumerated = 0
    /\ passStat.logged = {} /\ notified.closed = {}
    /\ notified.event = "complete"

\* no operation on the instance clears the flag
FlagSticky == [][m_cancelled /\ ~NewExporter => m_cancelled']_vars

\* C30 as stated: once cancel() has been called on an instance no operation
\* clears the flag, and a pass started after a cancel() that was issued
\* while no pass was running processes no account and no conversation and
\* is reported as cancelled.
C30_CancelSticky ==
    /\ FlagSticky
    /\ [](PrecancelledEnded =>
             /\ NothingProcessed
             /\ report = [event |-> "complete", cancelled |-> TRUE])

\* C30 amended: such a pass is reported as cancelled unless loading the
\* backup fails, in which case it is reported complete and not cancelled.
C30_CancelStickyAmended ==
    /\ FlagSticky
    /\ [](PrecancelledEnded =>
             /\ NothingProcessed
             /\ report = [event |-> "complete", cancelled |-> ~passStat.failed])

\* a pass started after cancel() loaded the backup and ended as cancelled
C30_Witness ==
    /\ PrecancelledEnded /\ ~passStat.failed /\ m_cancelled
    /\ report.cancelled /\ topIndex.exists

\* the worker enters the store of a conversation: notifySessionStart
SessionStarts == pc = "sessions" /\ pc' \in {"records", "sessionDone"}

\* the worker enters an account: exportUser
AccountStarts == pc = "users" /\ pc' = "sessions"

\* C31: once cancel() has been called during a pass, at most one further
\* record begins rendering in the rest of the pass, no conversation and no
\* account is started, and the task pool is cancelled, not awaited: the
\* account's tail empties the queue and reports no task, a turn of the wait
\* loop empties the queue and reports no progress, and the turn is never
\* blocked.
C31_BoundedResponse ==
    /\ [](passStat.late <= 1)
    /\ [](m_cancelled /\ pc = "taskWait" => ENABLED TaskWait)
    /\ [][m_cancelled =>
            /\ ~SessionStarts
            /\ ~AccountStarts
            /\ (pc = "userTail" /\ pc' = "taskWait" =>
                    taskQueue' = 0 /\ dlCount' = 0)
            /\ (pc = "taskWait" =>
                    /\ prevDlCount' = prevDlCount
                    /\ (notified' # notified => pc' = "tasksEnd")
                    /\ (taskQueue' # taskQueue => taskQueue' = 0 \/ TaskDone))]_vars

\* cancel() was called while records were left: one more record was rendered,
\* the pass ended with records and an account left
C31_Witness ==
    /\ pc = "done" /\ m_cancelled
    /\ passStat.late = 1
    /\ cut.set
    /\ Len(htmlBody) < Len(backup)

\* the pass has ended: notifyComplete was the last notification and the
\* worker has returned from runImpl, Completed, Cancelled or Failed
Terminated ==
    /\ pc = "done" /\ thread # "running"
    /\ notified.event = "complete" /\ report.event = "complete"

\* C32: every started pass terminates, cancelled or not: the worker leaves
\* the loop that waits for the tasks of every account it enters, emits
\* notifyComplete and returns from runImpl.
C32_Terminates ==
    /\ (pc = "start") ~> Terminated
    /\ (pc = "taskWait") ~> (pc = "tasksEnd")

\* a pass ended after the worker had waited for the tasks of an account
C32_Witness ==
    /\ Terminated
    /\ dlCount > 0 /\ taskQueue = 0

\* the worker is past the loading of the context and before the end of runImpl
PastLoad ==
    pc \in {"users", "sessions", "records", "flush", "merge", "sessionDone",
            "userTail", "taskWait", "tasksEnd", "finish"}

\* C33: a pass that loads a prior context runs with the options stored in it
\* and the incremental flag, and the context it persists holds the stored
\* options still; any other pass runs with the configured options, sets them
\* in its context and persists them with it; after either, m_options is what
\* was configured when run() was called.
C33_OptionsAcrossPass ==
    /\ [](PastLoad =>
            /\ passStat.options = m_options
            /\ orgOptions = passStat.configured
            /\ IF passStat.loadedContext
               THEN /\ "INCR" \in passStat.configured
                    /\ ctxFile.exists
                    /\ m_options = ctxFile.options \cup {"INCR"}
                    /\ m_exportContext.options = ctxFile.options
               ELSE /\ m_options = passStat.configured
                    /\ m_exportContext.options = passStat.configured)
    /\ [](pc = "done" => m_options = passStat.configured)
    /\ [][pc = "finish" /\ pc' = "done" =>
            IF passStat.loadedContext
            THEN ctxFile'.options = ctxFile.options
            ELSE ctxFile' # ctxFile => ctxFile'.options = passStat.configured]_vars

\* an incremental pass ended that was configured with another display order
\* than the context it loaded: it ran with the stored one and left it stored
C33_Witness ==
    /\ pc = "done" /\ ~passStat.failed
    /\ passStat.loadedContext
    /\ passStat.options # passStat.configured
    /\ ("DESC" \in passStat.configured) # ("DESC" \in ctxFile.options)
    /\ m_options = passStat.configured

-----------------------------------------------------------------------------
(* Properties of the filter *)

\* the filter selects the account
AccountSelected(u) == ~FilterOn \/ u \in DOMAIN m_usersAndSessionsFilter

\* the filter selects the conversation of the account
Selected(key) ==
    \/ ~FilterOn
    \/ /\ key[1] \in DOMAIN m_usersAndSessionsFilter
       /\ key[2] \in m_usersAndSessionsFilter[key[1]]

\* the worker is inside exportUser, and inside the body of its loop over the
\* conversations
InAccount ==
    pc \in {"sessions", "records", "flush", "merge", "sessionDone", "userTail",
            "taskWait", "tasksEnd"}
InConversation == pc \in {"records", "flush", "merge", "sessionDone"}

\* only what the filter selects is processed, and the conversations of the
\* filter are looked up for an account the filter holds
OnlySelectedProcessed ==
    /\ InAccount => AccountSelected(CurUser.name)
    /\ InConversation => Selected(CurKey)

\* a step of a pass emits no notification and writes no document, page,
\* index or log for what the filter does not select
OthersUntouched ==
    /\ \A u \in UserNames(backup) :
          ~AccountSelected(u) =>
              /\ userIndex'[u] = userIndex[u]
              /\ notified' # notified /\ notified'.key[2] = "" => notified'.key[1] # u
    /\ \A key \in ConvKeys(backup) :
          ~Selected(key) =>
              /\ notified' # notified => notified'.key # key
              /\ sessionDoc'[key] = sessionDoc[key]
              /\ chunkFile'[key] = chunkFile[key]
              /\ logFile'[key] = logFile[key]

\* a step of a pass leaves the persisted mark of every conversation the
\* filter does not select as it was
OtherMarksKept ==
    \A key \in ConvKeys(backup) :
        ~Selected(key) =>
            GetMaxId(ctxFile', key[2], 0) = GetMaxId(ctxFile, key[2], 0)

\* the conversations exportSession is called for: neither a subscription nor
\* one without a message store
Ordinary(b) ==
    {key \in ConvKeys(b) :
        \E i \in DOMAIN b : \E j \in DOMAIN b[i].sessions :
            /\ key = <<b[i].name, b[i].sessions[j].name>>
            /\ ~b[i].sessions[j].sub /\ ~b[i].sessions[j].dbEmpty}

\* a pass without filter that ran to its end went through every account and
\* every conversation
AllProcessed ==
    PassEnded /\ ~FilterOn /\ ~m_cancelled =>
        /\ htmlBody = [i \in DOMAIN backup |-> backup[i].name]
        /\ \A u \in UserNames(backup) : userIndex[u].exists
        /\ passStat.sessions = Cardinality(Ordinary(backup))

\* C34: with a filter, a pass processes only the accounts the filter holds
\* and of them only the conversations listed; for every other account or
\* conversation no notification is emitted, no document or log is written
\* and no mark is changed, and the listed conversations are looked up only
\* for an account the filter holds; without a filter every account and
\* conversation is processed.
C34_Filtering ==
    /\ [](OnlySelectedProcessed /\ AllProcessed)
    /\ [][pc \notin {"idle", "done"} => OthersUntouched /\ OtherMarksKept]_vars

====
